---------------------------- MODULE Spec2Model ----------------------------
(***************************************************************************)
(* Model of the column reconciliation and row extraction engine            *)
(* (processor.py, extractor.py).                                           *)
(*                                                                         *)
(* A Python str is a sequence of one-character strings, so that parsing,   *)
(* formatting and normalisation are computed character by character.       *)
(* A Decimal is a record [kind, neg, coef, exp] (value = coef * 10^exp).   *)
(***************************************************************************)
EXTENDS Integers, Sequences, FiniteSets, TLC

VARIABLES
    hIn,        \* the cell handed to format_val (a str)
    hMeta,      \* how hIn was drawn: [form, sign, h, m, w] or [form, class]
    hOut,       \* the value format_val returned
    hpc         \* "in" before format_val ran, "out" after

hvars == <<hIn, hMeta, hOut, hpc>>

VARIABLES
    df,                      \* the Sheet Table: [columns, data]
    DEFAULT_DISPLAY_COLUMNS, \* the module-level list (mutable in Python)
    columns_whitelist,       \* the caller's list object after the last call
    whitelist_arg,           \* the same list as it was when the call was made
    ncalls,                  \* the number of calls made on df so far
    unidade,                 \* the unit of the last call
    ym,                      \* the target month of the last call
    rows,                    \* returned: the list of row dicts
    recipients,              \* returned: the list of addresses
    summary,                 \* returned: the summary dict
    mapping,                 \* the local mapping: what map_columns resolved
    dfu_index,               \* the index of dfu: the table rows that were kept
    outcome                  \* "none", "returned" or "raised"

fvars == <<df, DEFAULT_DISPLAY_COLUMNS, columns_whitelist, whitelist_arg, ncalls, unidade, ym,
           rows, recipients, summary, mapping, dfu_index, outcome>>

VARIABLES
    mtable,     \* the headers of the table map_columns is called on
    mfirst,     \* the mapping its first call returned
    mlast,      \* the mapping its latest call returned
    mcalls,     \* the number of calls on mtable so far
    mothers     \* the number of calls on other tables so far

mvars == <<mtable, mfirst, mlast, mcalls, mothers>>

VARIABLE
    norm_cache  \* the lru_cache of _norm: argument -> cached result

VARIABLES
    xlsx_dir,     \* the files of Extractor.xlsx_dir: a set of [name, mtime, ...]
    names_cache,  \* the lru_cache of _get_sheet_names: file name -> sheet names
    _sheet_cache, \* Extractor._sheet_cache: cache key -> (table, sheet name)
    xcall,        \* the latest call on the Extractor and its arguments
    xout          \* what that call returned or raised

xvars == <<xlsx_dir, names_cache, _sheet_cache, xcall, xout>>

VARIABLES
    pc_blobs,     \* the "<md5>.pkl" files of cache_dir: key -> [state, value, setAt]
    pc_metafile,  \* the file _metadata.json: [kind, value]
    pc_metadata,  \* PersistentCache.metadata, as loaded or updated: [kind, entries]
    pc_writable,  \* whether cache_dir takes writes and unlinks just now
    clock,        \* datetime.now(), in ticks of twelve hours
    faults,       \* how many times the files of cache_dir were damaged so far
    pcall,        \* the latest call on the PersistentCache
    pout          \* what that call returned or raised

pvars == <<pc_blobs, pc_metafile, pc_metadata, pc_writable, clock, faults,
           pcall, pout>>

VARIABLES
    yIn,        \* the cell handed to the portal's parse_year_month
    yMeta,      \* how yIn was drawn: [form, year, month]
    yOut,       \* what the fallback returned
    ypc         \* "in" before the call, "out" after

yvars == <<yIn, yMeta, yOut, ypc>>

VARIABLES
    unit_overrides, \* the saved overrides: unit name -> configuration
    history_file,   \* config_history.json: [kind, history]
    cfaults,        \* the number of file operations that failed so far
    napply,         \* the number of apply_config_to_units calls so far
    ccall,          \* the latest call: [op, config, units, user, log]
    cout            \* what it returned: [success, message]

cvars == <<unit_overrides, history_file, cfaults, napply, ccall, cout>>

VARIABLES
    child_script,    \* the lines the pipeline subprocess has still to write
    child_state,     \* "running" or "exited"
    returncode,      \* the exit code of the subprocess once it exited
    stdout_pipe,     \* the lines in the pipe of process.stdout
    stderr_pipe,     \* the lines in the pipe of process.stderr
    mon_pc,          \* the page: "idle", "loop", "stderr" or "done"
    total_units,     \* len(unidades_selecionadas)
    full_logs,       \* the lines read from process.stdout so far
    current_unit,    \* the unit of the latest announcement
    processed_units, \* the set of units marked as completed
    processed_count, \* len(processed_units) as last assigned
    errors_count,    \* the number of error lines read
    display_count,   \* the count update_ui wrote into the header
    label_count,     \* the count written into the label of the status container
    status_state,    \* the state of the status container
    stderr_output    \* what process.stderr.read() returned

evars == <<child_script, child_state, returncode, stdout_pipe, stderr_pipe, mon_pc,
           total_units, full_logs, current_unit, processed_units, processed_count,
           errors_count, display_count, label_count, status_state, stderr_output>>

vars == <<hvars, fvars, mvars, norm_cache, xvars, pvars, yvars, cvars, evars>>

\* what the steps of one component leave alone: the other components
frame_f == <<hvars, mvars, xvars, pvars, yvars, cvars, evars>>
frame_h == <<fvars, mvars, xvars, pvars, yvars, cvars, evars>>
frame_m == <<hvars, fvars, xvars, pvars, yvars, cvars, evars>>
frame_x == <<hvars, fvars, mvars, norm_cache, yvars, cvars, evars>>
frame_y == <<hvars, fvars, mvars, norm_cache, xvars, pvars, cvars, evars>>
frame_c == <<hvars, fvars, mvars, norm_cache, xvars, pvars, yvars, evars>>
frame_e == <<hvars, fvars, mvars, norm_cache, xvars, pvars, yvars, cvars>>

---------------------------------------------------------------------------
(* Bounds of the model *)

\* largest hour count of a generated duration
MaxH == 2

\* largest number of rows of a Sheet Table
MaxRows == 2

---------------------------------------------------------------------------
(* Python str and int primitives *)

None == <<"<None>">>

DIGITS == <<"0", "1", "2", "3", "4", "5", "6", "7", "8", "9">>

IsDigit(c) == \E i \in 1..10 : DIGITS[i] = c

DigitVal(c) == (CHOOSE i \in 1..10 : DIGITS[i] = c) - 1

\* str.isspace for the characters of the model ("nbsp" is U+00A0)
IsSpace(c) == c \in {" ", "\t", "\n", "\r", "nbsp"}

AllDigits(s) == \A i \in 1..Len(s) : IsDigit(s[i])

RECURSIVE LStrip(_)
LStrip(s) == IF s # <<>> /\ IsSpace(Head(s)) THEN LStrip(Tail(s)) ELSE s

RECURSIVE RStrip(_)
RStrip(s) ==
    IF s # <<>> /\ IsSpace(s[Len(s)]) THEN RStrip(SubSeq(s, 1, Len(s) - 1)) ELSE s

\* str.strip()
Strip(s) == RStrip(LStrip(s))

\* value of a non-empty run of decimal digits
RECURSIVE DigitsToNat(_)
DigitsToNat(s) ==
    IF s = <<>> THEN 0
    ELSE 10 * DigitsToNat(SubSeq(s, 1, Len(s) - 1)) + DigitVal(s[Len(s)])

\* str(n) for n >= 0
RECURSIVE NatToStr(_)
NatToStr(n) ==
    IF n < 10 THEN <<DIGITS[n + 1]>>
    ELSE NatToStr(n \div 10) \o <<DIGITS[(n % 10) + 1]>>

\* [+-]?\d+
IsSignedInt(s) ==
    /\ s # <<>>
    /\ LET d == IF Head(s) \in {"+", "-"} THEN Tail(s) ELSE s
       IN  d # <<>> /\ AllDigits(d)

\* int(s) for s matching [+-]?\d+
SignedInt(s) ==
    IF Head(s) = "-" THEN 0 - DigitsToNat(Tail(s))
    ELSE IF Head(s) = "+" THEN DigitsToNat(Tail(s))
    ELSE DigitsToNat(s)

\* index of the first character of s that lies in cs, 0 when there is none
FirstIndexOf(s, cs) ==
    IF \E i \in 1..Len(s) : s[i] \in cs
    THEN CHOOSE i \in 1..Len(s) : s[i] \in cs /\ \A j \in 1..(i - 1) : s[j] \notin cs
    ELSE 0

\* s.replace(c, r) for a one-character c and a string r
RECURSIVE ReplaceChar(_, _, _)
ReplaceChar(s, c, r) ==
    IF s = <<>> THEN <<>>
    ELSE (IF Head(s) = c THEN r ELSE <<Head(s)>>) \o ReplaceChar(Tail(s), c, r)

\* 10^n
RECURSIVE Pow10(_)
Pow10(n) == IF n <= 0 THEN 1 ELSE 10 * Pow10(n - 1)

\* n / d rounded to an integer, ties to even (decimal.ROUND_HALF_EVEN)
RoundHalfEven(n, d) ==
    LET q == n \div d
        r == n % d
    IN  IF 2 * r < d THEN q
        ELSE IF 2 * r > d THEN q + 1
        ELSE IF q % 2 = 0 THEN q ELSE q + 1


---------------------------------------------------------------------------
(* The module-level constants of processor.py and the texts of the model *)

PENDENTE == <<"I", "n", "f", "o", "r", "m", "a", "ç", "ã", "o", " ", "p", "e", "n", "d", "e", "n", "t", "e">>

COLUMN_CANDIDATES ==
    [ Unidade |->
        << <<"U", "n", "i", "d", "a", "d", "e">>,
           <<"S", "h", "o", "p", "p", "i", "n", "g">>,
           <<"U", "n", "i", "d", "a", "d", "e", "/", "S", "h", "o", "p", "p", "i", "n", "g">>,
           <<"U", "n", "i", "d", ".">> >>,
      Mes_Emissao_NF |->
        << <<"M", "ê", "s", " ", "d", "e", " ", "e", "m", "i", "s", "s", "ã", "o", " ", "d", "a", " ", "N", "F">>,
           <<"M", "ê", "s", " ", "e", "m", "i", "s", "s", "ã", "o", " ", "N", "F">>,
           <<"M", "e", "s", " ", "E", "m", "i", "s", "s", "a", "o", " ", "N", "F">>,
           <<"M", "e", "s", " ", "N", "F">>,
           <<"C", "o", "m", "p", "e", "t", "e", "n", "c", "i", "a", " ", "N", "F">>,
           <<"C", "o", "m", "p", "e", "t", "ê", "n", "c", "i", "a", " ", "N", "F">>,
           <<"C", "o", "m", "p", "e", "t", "e", "n", "c", "i", "a">>,
           <<"C", "o", "m", "p", "e", "t", "ê", "n", "c", "i", "a">> >>,
      Email_Destinatario |->
        << <<"E", "-", "m", "a", "i", "l">>,
           <<"E", "m", "a", "i", "l">>,
           <<"E", "-", "m", "a", "i", "l", "s">>,
           <<"E", "m", "a", "i", "l", "s">>,
           <<"C", "o", "n", "t", "a", "t", "o", "s">>,
           <<"D", "e", "s", "t", "i", "n", "a", "t", "á", "r", "i", "o", "s">> >>,
      Valor_Mensal_Final |->
        << <<"V", "a", "l", "o", "r", " ", "M", "e", "n", "s", "a", "l", " ", "F", "i", "n", "a", "l">>,
           <<"V", "a", "l", "o", "r", " ", "M", "e", "n", "s", "a", "l">>,
           <<"T", "o", "t", "a", "l", " ", "F", "a", "t", "u", "r", "a", "m", "e", "n", "t", "o">>,
           <<"V", "a", "l", "o", "r", " ", "F", "i", "n", "a", "l">> >>,
      Contrato |->
        << <<"C", "o", "n", "t", "r", "a", "t", "o">>,
           <<"N", "ú", "m", "e", "r", "o", " ", "d", "o", " ", "P", "e", "d", "i", "d", "o">>,
           <<"P", "e", "d", "i", "d", "o">>,
           <<"O", "r", "d", "e", "r", "N", "u", "m", "b", "e", "r">> >>,
      Funcionario |->
        << <<"F", "u", "n", "c", "i", "o", "n", "á", "r", "i", "o">>,
           <<"C", "o", "l", "a", "b", "o", "r", "a", "d", "o", "r">> >>,
      Status |->
        << <<"S", "t", "a", "t", "u", "s">>,
           <<"S", "t", "a", "t", "u", "s", " ", "d", "o", " ", "C", "o", "n", "t", "r", "a", "t", "o">>,
           <<"S", "i", "t", "u", "a", "ç", "ã", "o">> >> ]

DEFAULT_DISPLAY_COLUMNS_INIT ==
    << <<"U", "n", "i", "d", "a", "d", "e">>,
       <<"C", "a", "t", "e", "g", "o", "r", "i", "a">>,
       <<"F", "o", "r", "n", "e", "c", "e", "d", "o", "r">>,
       <<"H", "C", " ", "P", "l", "a", "n", "i", "l", "h", "a">>,
       <<"D", "i", "a", "s", " ", "F", "a", "l", "t", "a", "s">>,
       <<"H", "o", "r", "a", "s", " ", "A", "t", "r", "a", "s", "o", "s">>,
       <<"V", "a", "l", "o", "r", " ", "P", "l", "a", "n", "i", "l", "h", "a">>,
       <<"D", "e", "s", "c", ".", " ", "F", "a", "l", "t", "a", " ", "V", "a", "l", "i", "d", "a", "d", "o", " ", "A", "t", "l", "a", "s">>,
       <<"D", "e", "s", "c", ".", " ", "A", "t", "r", "a", "s", "o", " ", "V", "a", "l", "i", "d", "a", "d", "o", " ", "A", "t", "l", "a", "s">>,
       <<"D", "e", "s", "c", "o", "n", "t", "o", " ", "S", "L", "A", " ", "M", "ê", "s">>,
       <<"V", "a", "l", "o", "r", " ", "M", "e", "n", "s", "a", "l", " ", "F", "i", "n", "a", "l">>,
       <<"M", "ê", "s", " ", "r", "e", "f", "e", "r", "ê", "n", "c", "i", "a", " ", "p", "a", "r", "a", " ", "f", "a", "t", "u", "r", "a", "m", "e", "n", "t", "o">>,
       <<"M", "ê", "s", " ", "d", "e", " ", "e", "m", "i", "s", "s", "ã", "o", " ", "d", "a", " ", "N", "F">> >>

COL_MES_EMISSAO == <<"M", "ê", "s", " ", "d", "e", " ", "e", "m", "i", "s", "s", "ã", "o", " ", "d", "a", " ", "N", "F">>

COL_MES_REFERENCIA == <<"M", "ê", "s", " ", "r", "e", "f", "e", "r", "ê", "n", "c", "i", "a", " ", "p", "a", "r", "a", " ", "f", "a", "t", "u", "r", "a", "m", "e", "n", "t", "o">>

COL_VALOR_MENSAL_FINAL == <<"V", "a", "l", "o", "r", " ", "M", "e", "n", "s", "a", "l", " ", "F", "i", "n", "a", "l">>

COL_HORAS_ATRASOS == <<"H", "o", "r", "a", "s", " ", "A", "t", "r", "a", "s", "o", "s">>

COL_VMF_NUM == <<"_", "v", "m", "f", "_", "n", "u", "m">>

\* headers of the tables of the model that are no candidate of any field
HDR_UNIDADE_SHOPPING == <<"U", "n", "i", "d", "a", "d", "e", " ", "/", " ", "S", "h", "o", "p", "p", "i", "n", "g">>

HDR_MES_NF == <<"M", "E", "S", " ", "N", "F">>

HDR_CATEGORIA == <<"C", "a", "t", "e", "g", "o", "r", "i", "a">>

HDR_FORNECEDOR == <<"F", "o", "r", "n", "e", "c", "e", "d", "o", "r">>

---------------------------------------------------------------------------
(* Text Normalizer: utils.normalize_text_full, behind processor._norm *)

UPPERS == <<"A", "B", "C", "D", "E", "F", "G", "H", "I", "J", "K", "L", "M",
            "N", "O", "P", "Q", "R", "S", "T", "U", "V", "W", "X", "Y", "Z",
            "Á", "Â", "Ã", "É", "Ê", "Í", "Ó", "Ô", "Õ", "Ú", "Ç">>

LOWERS == <<"a", "b", "c", "d", "e", "f", "g", "h", "i", "j", "k", "l", "m",
            "n", "o", "p", "q", "r", "s", "t", "u", "v", "w", "x", "y", "z",
            "á", "â", "ã", "é", "ê", "í", "ó", "ô", "õ", "ú", "ç">>

ACCENTED == <<"á", "â", "ã", "é", "ê", "í", "ó", "ô", "õ", "ú", "ç">>

UNACCENTED == <<"a", "a", "a", "e", "e", "i", "o", "o", "o", "u", "c">>

\* str.lower(), character by character
LOWER_OF ==
    [c \in {UPPERS[i] : i \in 1..Len(UPPERS)} |->
        LOWERS[CHOOSE i \in 1..Len(UPPERS) : UPPERS[i] = c]]

Lower(c) == IF c \in DOMAIN LOWER_OF THEN LOWER_OF[c] ELSE c

LowerStr(s) == [i \in 1..Len(s) |-> Lower(s[i])]

\* accent stripping, character by character
UNACCENT_OF ==
    [c \in {ACCENTED[i] : i \in 1..Len(ACCENTED)} |->
        UNACCENTED[CHOOSE i \in 1..Len(ACCENTED) : ACCENTED[i] = c]]

Unaccent(c) == IF c \in DOMAIN UNACCENT_OF THEN UNACCENT_OF[c] ELSE c

NBSP_MARKUP == <<"&", "n", "b", "s", "p", ";">>

\* the literal markup "&nbsp;" becomes one space
RECURSIVE ReplaceMarkup(_)
ReplaceMarkup(s) ==
    IF s = <<>> THEN <<>>
    ELSE IF Len(s) >= 6 /\ SubSeq(s, 1, 6) = NBSP_MARKUP
         THEN <<" ">> \o ReplaceMarkup(SubSeq(s, 7, Len(s)))
         ELSE <<Head(s)>> \o ReplaceMarkup(Tail(s))

\* every run of whitespace becomes one ordinary space
RECURSIVE CollapseSpaces(_)
CollapseSpaces(s) ==
    IF s = <<>> THEN <<>>
    ELSE IF IsSpace(Head(s))
         THEN <<" ">> \o CollapseSpaces(LStrip(s))
         ELSE <<Head(s)>> \o CollapseSpaces(Tail(s))

\* accents stripped, case folded, whitespace collapsed, ends trimmed
normalize_text_full(s) ==
    LET folded == [i \in 1..Len(s) |-> Unaccent(Lower(s[i]))]
    IN  Strip(CollapseSpaces(ReplaceMarkup(folded)))

\* the strings _norm has been called on once the module has served calls
NORM_CACHE_KEYS ==
    UNION { {COLUMN_CANDIDATES[k][i] : i \in 1..Len(COLUMN_CANDIDATES[k])} :
                k \in DOMAIN COLUMN_CANDIDATES }
        \cup {DEFAULT_DISPLAY_COLUMNS_INIT[i] : i \in 1..Len(DEFAULT_DISPLAY_COLUMNS_INIT)}
        \cup {PENDENTE, HDR_UNIDADE_SHOPPING, HDR_MES_NF, HDR_CATEGORIA, HDR_FORNECEDOR}

NORM_CACHE == [s \in NORM_CACHE_KEYS |-> normalize_text_full(s)]

\* processor._norm: the memoised normalize_text_full; a hit returns what the
\* cache holds, a miss computes
_norm(s) == IF s \in DOMAIN norm_cache THEN norm_cache[s] ELSE normalize_text_full(s)

\* the cache after _norm was called on every string of keys: a miss stores
\* the computed result, a hit leaves the entry alone (lru_cache keeps at most
\* 512 entries; the strings of the model are fewer, nothing is evicted)
CacheFill_Unnormalized(cache, keys) ==
    [s \in (DOMAIN cache) \cup keys |-> IF s \in DOMAIN cache THEN cache[s] ELSE s]

CacheFill(cache, keys) ==
    [s \in (DOMAIN cache) \cup keys |->
        IF s \in DOMAIN cache THEN cache[s] ELSE normalize_text_full(s)]

---------------------------------------------------------------------------
(* decimal.Decimal *)

DecFin(neg, coef, exp) == [kind |-> "fin", neg |-> neg, coef |-> coef, exp |-> exp]

DecSpecial(kind, neg) == [kind |-> kind, neg |-> neg, coef |-> 0, exp |-> 0]

\* the outcome of a constructor call that raises InvalidOperation
DecInvalid == DecSpecial("err", FALSE)

DecZero == DecFin(FALSE, 0, 0)

\* length of the longest prefix of s made of digits
RECURSIVE DigitPrefixLen(_)
DigitPrefixLen(s) ==
    IF s # <<>> /\ IsDigit(Head(s)) THEN 1 + DigitPrefixLen(Tail(s)) ELSE 0

\* the numeric part of a Decimal literal: digits [. digits] | . digits, then
\* an optional exponent e [+-] digits
DecNumber(neg, body) ==
    LET n1   == DigitPrefixLen(body)
        ip   == SubSeq(body, 1, n1)
        r1   == SubSeq(body, n1 + 1, Len(body))
        dot  == r1 # <<>> /\ Head(r1) = "."
        r2   == IF dot THEN Tail(r1) ELSE r1
        n2   == IF dot THEN DigitPrefixLen(r2) ELSE 0
        fp   == SubSeq(r2, 1, n2)
        r3   == SubSeq(r2, n2 + 1, Len(r2))
        coef == DigitsToNat(ip \o fp)
    IN  IF n1 + n2 = 0 THEN DecInvalid
        ELSE IF r3 = <<>> THEN DecFin(neg, coef, 0 - n2)
        ELSE IF Head(r3) = "e" /\ IsSignedInt(Tail(r3))
             THEN DecFin(neg, coef, SignedInt(Tail(r3)) - n2)
             ELSE DecInvalid

\* Decimal(s) for a str s: surrounding whitespace ignored, case ignored
DecimalOfStr(s) ==
    LET t    == LowerStr(Strip(s))
        sgn  == t # <<>> /\ Head(t) \in {"+", "-"}
        neg  == t # <<>> /\ Head(t) = "-"
        body == IF sgn THEN Tail(t) ELSE t
    IN  IF body = <<>> THEN DecInvalid
        ELSE IF body \in {<<"i", "n", "f">>,
                          <<"i", "n", "f", "i", "n", "i", "t", "y">>}
             THEN DecSpecial("inf", neg)
        ELSE IF body = <<"n", "a", "n">> THEN DecSpecial("nan", neg)
        ELSE IF body = <<"s", "n", "a", "n">> THEN DecSpecial("snan", neg)
        ELSE DecNumber(neg, body)

\* d.quantize(Decimal("0.1")) of a finite d, as a count of tenths (magnitude)
QuantizeTenths(d) ==
    IF d.exp >= -1 THEN d.coef * Pow10(d.exp + 1)
    ELSE RoundHalfEven(d.coef, Pow10(0 - d.exp - 1))

\* str() of a Decimal with exponent -1, then .replace(".", ",")
TenthsStr(neg, tenths) ==
    (IF neg THEN <<"-">> ELSE <<>>)
        \o NatToStr(tenths \div 10) \o <<",">> \o <<DIGITS[(tenths % 10) + 1]>>

---------------------------------------------------------------------------
(* processor._format_horas_atrasos_vectorized: format_val *)

\* largest value of the minutes group (\d{1,2}) of HORAS_PATTERN_1 and _2
MaxMinutes == 99

\* HORAS_PATTERN_1  ^\s*([+-]?\d+):\s*(\d{1,2})\s*$   -> <<group 1, group 2>>
HorasPattern1(s) ==
    LET i    == FirstIndexOf(s, {":"})
        head == LStrip(SubSeq(s, 1, i - 1))
        tail == Strip(SubSeq(s, i + 1, Len(s)))
    IN  IF i > 0 /\ IsSignedInt(head) /\ Len(tail) \in {1, 2} /\ AllDigits(tail)
        THEN <<head, tail>>
        ELSE None

\* HORAS_PATTERN_2  ^\s*([+-]?\d+)\s*h\s*(\d{1,2})?\s*m?\s*$  (IGNORECASE)
\* -> <<group 1, group 2>>, group 2 empty when it did not take part
HorasPattern2(s) ==
    LET i    == FirstIndexOf(s, {"h", "H"})
        head == Strip(SubSeq(s, 1, i - 1))
        tail == LStrip(SubSeq(s, i + 1, Len(s)))
        n    == DigitPrefixLen(tail)
        rest == Strip(SubSeq(tail, n + 1, Len(tail)))
    IN  IF i > 0 /\ IsSignedInt(head) /\ n <= 2 /\ rest \in {<<>>, <<"m">>, <<"M">>}
        THEN <<head, SubSeq(tail, 1, n)>>
        ELSE None

\* the body of both try blocks: carry the minutes, take the sign from the
\* hours, divide by 60, quantize to 0.1, negate, str(), "." -> ","
HoursDecimal_NoCarry(h0, mi0) ==
    LET mi       == mi0 % 60
        negative == h0 < 0
        h        == IF h0 < 0 THEN 0 - h0 ELSE h0
        tenths   == RoundHalfEven(h * 60 + mi, 6)
    IN  TenthsStr(negative /\ tenths # 0, tenths)

HoursDecimal(h0, mi0) ==
    LET h1       == IF mi0 >= 60 THEN h0 + (mi0 \div 60) ELSE h0
        mi       == IF mi0 >= 60 THEN mi0 % 60 ELSE mi0
        negative == h1 < 0
        h        == IF h1 < 0 THEN 0 - h1 ELSE h1
        tenths   == RoundHalfEven(h * 60 + mi, 6)
    IN  TenthsStr(negative /\ tenths # 0, tenths)

\* the last branch: Decimal(raw).quantize(Decimal("0.1")), s when it raises
DecimalDirect(s) ==
    LET raw == ReplaceChar(ReplaceChar(s, " ", <<>>), ",", <<".">>)
        d   == DecimalOfStr(raw)
    IN  IF d.kind = "fin" THEN TenthsStr(d.neg, QuantizeTenths(d))
        ELSE IF d.kind = "nan"
             THEN (IF d.neg THEN <<"-">> ELSE <<>>) \o <<"N", "a", "N">>
             ELSE s

\* the guard of the first return of format_val
IsPendente_Exact(val) == val = <<>> \/ val = PENDENTE

IsPendente(val) == val = <<>> \/ _norm(val) = _norm(PENDENTE)

format_val(val) ==
    IF IsPendente(val) THEN PENDENTE
    ELSE LET s  == Strip(val)
             m1 == HorasPattern1(s)
             m2 == HorasPattern2(s)
         IN  IF m1 # None
             THEN HoursDecimal(SignedInt(m1[1]), DigitsToNat(m1[2]))
             ELSE IF m2 # None
             THEN HoursDecimal(SignedInt(m2[1]), DigitsToNat(m2[2]))
             ELSE DecimalDirect(s)

\* minutes written with w digits
MinutesStr(m, w) == IF w = 2 /\ m < 10 THEN <<"0">> \o NatToStr(m) ELSE NatToStr(m)

\* the text of a duration cell in the form H:MM ("colon") or Hh MMm ("hm")
HorasText(sign, h, m, w, form) ==
    sign \o NatToStr(h)
         \o (IF form = "colon" THEN <<":">> \o MinutesStr(m, w)
             ELSE <<"h", " ">> \o MinutesStr(m, w) \o <<"m">>)

HorasGenerated ==
    { [form |-> f, sign |-> sg, h |-> h, m |-> m, w |-> w] :
        f \in {"colon", "hm"}, sg \in {<<>>, <<"-">>, <<"+">>},
        h \in 0..MaxH, m \in 0..MaxMinutes, w \in {1, 2} }

\* cells that are no generated duration, with the class each belongs to
HorasSamples ==
    { [text |-> <<>>, class |-> "empty"],
      [text |-> PENDENTE, class |-> "pending"],
      [text |-> <<"i", "n", "f", "o", "r", "m", "a", "c", "a", "o", " ", "p", "e", "n", "d", "e", "n", "t", "e">>, class |-> "pending"],
      [text |-> <<"I", "N", "F", "O", "R", "M", "A", "Ç", "Ã", "O", " ", "P", "E", "N", "D", "E", "N", "T", "E">>, class |-> "pending"],
      [text |-> <<" ", "I", "n", "f", "o", "r", "m", "a", "ç", "ã", "o", " ", " ", "p", "e", "n", "d", "e", "n", "t", "e", " ">>, class |-> "pending"],
      [text |-> <<"a", "b", "c">>, class |-> "junk"],
      [text |-> <<" ", "n", "/", "a", " ">>, class |-> "junk"],
      [text |-> <<"1", ":", "2", "3", "4">>, class |-> "junk"],
      [text |-> <<"1", ":", "2", ":", "3">>, class |-> "junk"],
      [text |-> <<"h">>, class |-> "junk"],
      [text |-> <<"1", ",", "2", ",", "3">>, class |-> "junk"],
      [text |-> <<"-">>, class |-> "junk"],
      [text |-> <<"i", "n", "f">>, class |-> "special"],
      [text |-> <<"n", "a", "n">>, class |-> "special"],
      [text |-> <<"2", ",", "5">>, class |-> "decimal"],
      [text |-> <<"2", ".", "2", "5">>, class |-> "decimal"],
      [text |-> <<"-", "0", ",", "0", "4">>, class |-> "decimal"],
      [text |-> <<" ", "3", " ">>, class |-> "decimal"],
      [text |-> <<"1", " ", "0", "0", "0", ",", "3", "5">>, class |-> "decimal"],
      [text |-> <<"4", "H">>, class |-> "hm"] }

---------------------------------------------------------------------------
(* Column Mapper: processor._pick_column, processor.map_columns *)

\* the needle occurs in the haystack (Python's `in` on two str)
Contains(hay, needle) ==
    \/ needle = <<>>
    \/ \E i \in 1..(Len(hay) - Len(needle) + 1) :
            hay[i] = needle[1] /\ SubSeq(hay, i, i + Len(needle) - 1) = needle

\* a Python value that is falsy where a column name is expected
Falsy(x) == x = None \/ x = <<>>

\* dict assignment m[k] = v on a dict kept as a sequence of <<key, value>>:
\* a new key goes last, an existing key keeps its position
DictPut(m, k, v) ==
    IF \E i \in 1..Len(m) : m[i][1] = k
    THEN [i \in 1..Len(m) |-> IF m[i][1] = k THEN <<k, v>> ELSE m[i]]
    ELSE Append(m, <<k, v>>)

\* norm_map = {_norm(c): c for c in df.columns}
RECURSIVE NormMap(_)
NormMap(columns) ==
    IF columns = <<>> THEN <<>>
    ELSE LET c == columns[Len(columns)]
         IN  DictPut(NormMap(SubSeq(columns, 1, Len(columns) - 1)), _norm(c), c)

\* the least index at which flags is TRUE; 0 when there is none
FirstTrue(flags) ==
    IF \E i \in 1..Len(flags) : flags[i]
    THEN CHOOSE i \in 1..Len(flags) : flags[i] /\ \A j \in 1..(i - 1) : ~flags[j]
    ELSE 0

\* the first element of seq satisfying P, by index; 0 when there is none
FirstIndex(seq, P(_)) == FirstTrue([i \in 1..Len(seq) |-> P(seq[i])])

_pick_column(columns, candidates) ==
    LET norm_map == NormMap(columns)
        HasKey(cand) ==
            LET nc == _norm(cand)
            IN  \E i \in 1..Len(norm_map) : norm_map[i][1] = nc
        exact == FirstIndex(candidates, HasKey)
        InSomeKey(cand) ==
            LET nc == _norm(cand)
            IN  nc # <<>> /\ \E i \in 1..Len(norm_map) : Contains(norm_map[i][1], nc)
        partial == FirstIndex(candidates, InSomeKey)
    IN  IF exact > 0
        THEN LET nc == _norm(candidates[exact])
                 KeyIs(e) == e[1] = nc
             IN  norm_map[FirstIndex(norm_map, KeyIs)][2]
        ELSE IF partial > 0
        THEN LET nc == _norm(candidates[partial])
                 KeyHas(e) == Contains(e[1], nc)
             IN  norm_map[FirstIndex(norm_map, KeyHas)][2]
        ELSE None

MES_ALIASES == << <<"m", "e", "s", " ", "d", "e", " ", "e", "m", "i", "s", "s", "a", "o", " ", "d", "a", " ", "n", "f">>,
                 <<"m", "e", "s", " ", "e", "m", "i", "s", "s", "a", "o", " ", "n", "f">>,
                 <<"m", "e", "s", " ", "n", "f">> >>

\* the fallback for the Issue-Month field: the first header holding an alias
MesFallback(columns, mes0) ==
    LET HasAlias(c) ==
            LET nc == _norm(c)
            IN  \E a \in 1..Len(MES_ALIASES) : Contains(nc, MES_ALIASES[a])
    IN  IF Falsy(mes0) \/ ~(\E i \in 1..Len(columns) : columns[i] = mes0)
        THEN LET fb == FirstIndex(columns, HasAlias)
             IN  IF fb > 0 THEN columns[fb] ELSE mes0
        ELSE mes0

\* mapping["Mes_Emissão_NF"] = mapping["Mes_Emissao_NF"] when that is truthy
WithAccentedKey(picked) ==
    IF ~Falsy(picked["Mes_Emissao_NF"])
    THEN ("Mes_Emissão_NF" :> picked["Mes_Emissao_NF"]) @@ picked
    ELSE picked

WithMesFallback(columns, picked) ==
    WithAccentedKey([picked EXCEPT
        !["Mes_Emissao_NF"] = MesFallback(columns, picked["Mes_Emissao_NF"])])

map_columns(columns) ==
    WithMesFallback(columns,
        [key \in DOMAIN COLUMN_CANDIDATES |-> _pick_column(columns, COLUMN_CANDIDATES[key])])

\* dict.get(key): None for a key the mapping does not hold
MapGet(resolved, key) == IF key \in DOMAIN resolved THEN resolved[key] ELSE None

\* the strings one _pick_column call hands to _norm: every header, and the
\* candidates up to the first that matches a header exactly (all of them
\* when none does)
PickKeys(columns, candidates) ==
    LET norm_map == NormMap(columns)
        HasKey(cand) ==
            LET nc == _norm(cand)
            IN  \E i \in 1..Len(norm_map) : norm_map[i][1] = nc
        exact == FirstIndex(candidates, HasKey)
    IN  {columns[j] : j \in 1..Len(columns)}
            \cup {candidates[i] : i \in 1..(IF exact > 0 THEN exact ELSE Len(candidates))}

\* the strings one map_columns call hands to _norm
MapperKeys(columns) ==
    UNION {PickKeys(columns, COLUMN_CANDIDATES[key]) : key \in DOMAIN COLUMN_CANDIDATES}

SLA_DESCONTO_NAMES ==
    { <<"D", "e", "s", "c", "o", "n", "t", "o", " ", "S", "L", "A", " ", "M", "ê", "s">>,
      <<"D", "e", "s", "c", ".", " ", "S", "L", "A", " ", "M", "ê", "s">>,
      <<"D", "e", "s", "c", ".", " ", "S", "L", "A", " ", "M", "ê", "s", " ", "/", " ", "E", "q", "u", "i", "p", ".">>,
      <<"D", "e", "s", "c", "_", "S", "L", "A">>,
      <<"D", "e", "s", "c", "o", "n", "t", "o", "_", "S", "L", "A", "_", "M", "e", "s">>,
      <<"D", "e", "s", "c", "o", "n", "t", "o", "_", "S", "L", "A", "_", "M", "ê", "s">>,
      <<"D", "e", "s", "c", "o", "n", "t", "o", " ", "S", "L", "A", " ", "M", "e", "s">>,
      <<"S", "L", "A", " ", "D", "e", "s", "c", "o", "n", "t", "o", " ", "M", "ê", "s">>,
      <<"D", "e", "s", "c", "o", "n", "t", "o", " ", "S", "L", "A">> }

\* the cache once the module is imported: SLA_DESCONTO_NAMES_NORMALIZED and
\* PENDENTE_LABELS_NORMALIZED are computed through _norm
ImportCache == CacheFill(<<>>, SLA_DESCONTO_NAMES \cup {PENDENTE})

\* the cache of a module that has served calls
WarmCache == CacheFill(NORM_CACHE, SLA_DESCONTO_NAMES)

EXTRA_TOKEN_SETS ==
    ("Desconto SLA Retroativo" :>
        << << <<"s", "l", "a">>, <<"r", "e", "t", "r", "o">> >>,
           << <<"r", "e", "t", "r", "o", "a", "t", "i", "v", "o">>, <<"s", "l", "a">> >>,
           << <<"d", "e", "s", "c">>, <<"s", "l", "a">>, <<"r", "e", "t">> >> >>)
    @@ ("Desconto Equipamentos" :>
        << << <<"e", "q", "u", "i", "p">> >>,
           << <<"e", "q", "u", "i", "p", "a", "m", "e", "n", "t", "o", "s">> >> >>)

\* processor._find_col_by_tokens: the first header, for the first token set
\* that has one, whose normalized form holds every token of the set
_find_col_by_tokens(columns, token_sets) ==
    LET Holds(k, j) ==
            \A x \in 1..Len(token_sets[k]) :
                token_sets[k][x] = <<>> \/ Contains(_norm(columns[j]), _norm(token_sets[k][x]))
        Hit(k) == \E j \in 1..Len(columns) : Holds(k, j)
        first == FirstTrue([k \in 1..Len(token_sets) |-> Hit(k)])
    IN  IF first > 0
        THEN columns[FirstTrue([j \in 1..Len(columns) |-> Holds(first, j)])]
        ELSE None

---------------------------------------------------------------------------
(* The helpers of utils.py that processor.py imports *)

\* s.split(sep) for a one-character separator in seps
RECURSIVE Split(_, _)
Split(s, seps) ==
    LET i == FirstIndexOf(s, seps)
    IN  IF i = 0 THEN <<s>>
        ELSE <<SubSeq(s, 1, i - 1)>> \o Split(SubSeq(s, i + 1, Len(s)), seps)

\* n written with at least two digits ({n:02d})
Pad2(n) == IF n < 10 THEN <<"0">> \o NatToStr(n) ELSE NatToStr(n)

\* n written with at least four digits ({n:04d})
Pad4(n) ==
    IF n < 10 THEN <<"0", "0", "0">> \o NatToStr(n)
    ELSE IF n < 100 THEN <<"0", "0">> \o NatToStr(n)
    ELSE IF n < 1000 THEN <<"0">> \o NatToStr(n)
    ELSE NatToStr(n)

\* utils.parse_year_month: "YYYY-MM" or "YYYY/MM" with the year 20YY and a
\* month of one or two digits becomes the token "YYYY-MM"; anything else None
parse_year_month(x) ==
    LET s == Strip(x)
        y == SubSeq(s, 1, 4)
        m == SubSeq(s, 6, Len(s))
    IN  IF /\ Len(s) \in {6, 7}
           /\ AllDigits(y) /\ y[1] = "2" /\ y[2] = "0"
           /\ s[5] \in {"-", "/"}
           /\ AllDigits(m) /\ DigitsToNat(m) \in 1..12
        THEN y \o <<"-">> \o Pad2(DigitsToNat(m))
        ELSE None

\* utils.normalize_unit: case, accent and whitespace folding of a unit name
normalize_unit(x) == normalize_text_full(x)

\* the non-empty trimmed pieces of a sequence of strings
RECURSIVE TrimmedNonEmpty(_)
TrimmedNonEmpty(parts) ==
    IF parts = <<>> THEN <<>>
    ELSE (IF Strip(Head(parts)) = <<>> THEN <<>> ELSE <<Strip(Head(parts))>>)
            \o TrimmedNonEmpty(Tail(parts))

\* utils.split_emails: split a cell on the multi-address delimiters, trim
split_emails(cell) == TrimmedNonEmpty(Split(cell, {";", ","}))

\* the integer part of a money amount with "." between groups of three digits
RECURSIVE GroupThousands(_)
GroupThousands(n) ==
    IF n < 1000 THEN NatToStr(n)
    ELSE LET r == n % 1000
         IN  GroupThousands(n \div 1000) \o <<".">>
                \o (IF r < 10 THEN <<"0", "0">> ELSE IF r < 100 THEN <<"0">> ELSE <<>>)
                \o NatToStr(r)

\* utils.fmt_brl: two decimals, decimal comma, thousands dot, no symbol
fmt_brl(d) ==
    IF d.kind = "fin"
    THEN LET cents == IF d.exp >= -2 THEN d.coef * Pow10(d.exp + 2)
                      ELSE RoundHalfEven(d.coef, Pow10(0 - d.exp - 2))
         IN  (IF d.neg /\ cents # 0 THEN <<"-">> ELSE <<>>)
                \o GroupThousands(cents \div 100) \o <<",">> \o Pad2(cents % 100)
    ELSE IF d.kind = "inf"
    THEN (IF d.neg THEN <<"-">> ELSE <<>>) \o <<"I", "n", "f", "i", "n", "i", "t", "y">>
    ELSE <<"N", "a", "N">>

\* the characters of s that are not in cs
RECURSIVE RemoveChars(_, _)
RemoveChars(s, cs) ==
    IF s = <<>> THEN <<>>
    ELSE (IF Head(s) \in cs THEN <<>> ELSE <<Head(s)>>) \o RemoveChars(Tail(s), cs)

\* utils.parse_brl_money: Brazilian money text to an exact decimal; the
\* currency symbol and spaces are dropped, with a decimal comma the dots are
\* thousands separators; invalid or missing text is zero
parse_brl_money(x) ==
    LET bare == RemoveChars(x, {"R", "$", " ", "nbsp"})
        txt  == IF \E i \in 1..Len(bare) : bare[i] = ","
                THEN ReplaceChar(RemoveChars(bare, {"."}), ",", <<".">>)
                ELSE bare
        d    == DecimalOfStr(txt)
    IN  IF d.kind = "fin" THEN d ELSE DecZero

---------------------------------------------------------------------------
(* Row Filter & Normalizer: processor.filter_and_prepare and its helpers *)

InSeq(seq, x) == \E i \in 1..Len(seq) : seq[i] = x

\* convert(x) of _to_decimal_sane_vectorized on a str cell: Decimal(str(x)),
\* zero when the constructor raises
convert(x) ==
    LET d == DecimalOfStr(x)
    IN  IF d.kind = "err" THEN DecZero ELSE d

SignedCoef(d) == IF d.neg THEN 0 - d.coef ELSE d.coef

\* a + b on two Decimal; kind "err" when the addition raises
DecAdd(a, b) ==
    IF "err" \in {a.kind, b.kind} \/ "snan" \in {a.kind, b.kind} THEN DecInvalid
    ELSE IF "nan" \in {a.kind, b.kind} THEN DecSpecial("nan", FALSE)
    ELSE IF a.kind = "inf" /\ b.kind = "inf"
         THEN (IF a.neg = b.neg THEN a ELSE DecInvalid)
    ELSE IF a.kind = "inf" THEN a
    ELSE IF b.kind = "inf" THEN b
    ELSE LET e == IF a.exp < b.exp THEN a.exp ELSE b.exp
             v == SignedCoef(a) * Pow10(a.exp - e) + SignedCoef(b) * Pow10(b.exp - e)
         IN  DecFin(v < 0, IF v < 0 THEN 0 - v ELSE v, e)

\* Series.sum() of a column of Decimal. skipna: whether this pandas counts a
\* quiet Decimal NaN as missing (and skips it) or adds it like any value.
RECURSIVE SeriesSum(_, _)
SeriesSum(values, skipna) ==
    IF values = <<>> THEN DecZero
    ELSE LET last == values[Len(values)]
             rest == SeriesSum(SubSeq(values, 1, Len(values) - 1), skipna)
         IN  IF last.kind = "nan" /\ skipna THEN rest ELSE DecAdd(rest, last)

\* float(d): the number d denotes, whatever its exponent and trailing zeros
RECURSIVE FloatOf(_)
FloatOf(d) ==
    IF d.kind # "fin" THEN DecSpecial(d.kind, d.kind = "inf" /\ d.neg)
    ELSE IF d.coef = 0 THEN DecZero
    ELSE IF d.coef % 10 = 0 THEN FloatOf(DecFin(d.neg, d.coef \div 10, d.exp + 1))
    ELSE d

\* _format_mmyy: "YYYY-MM" -> "MM/YY"
_format_mmyy(ym_str) ==
    IF ym_str = <<>> THEN <<>>
    ELSE LET parts == Split(ym_str, {"-"})
         IN  IF Len(parts) = 2
             THEN parts[2] \o <<"/">> \o SubSeq(parts[1], 3, Len(parts[1]))
             ELSE ym_str

\* _get_prev_month: the "YYYY-MM" of the month before; date(y, m, 1) minus
\* one day, the argument itself when it is no valid year and month
_get_prev_month_SameMonth(ym_str) == ym_str

_get_prev_month(ym_str) ==
    IF ym_str = <<>> THEN <<>>
    ELSE LET parts == Split(ym_str, {"-"})
             ok    == /\ Len(parts) = 2
                      /\ IsSignedInt(Strip(parts[1])) /\ IsSignedInt(Strip(parts[2]))
             y     == SignedInt(Strip(parts[1]))
             m     == SignedInt(Strip(parts[2]))
         IN  IF ok /\ y \in 1..9999 /\ m \in 1..12 /\ ~(y = 1 /\ m = 1)
             THEN (IF m = 1 THEN Pad4(y - 1) \o <<"-">> \o Pad2(12)
                   ELSE Pad4(y) \o <<"-">> \o Pad2(m - 1))
             ELSE ym_str

\* step 2: df.loc[_vectorized_parse_year_month(df[mes_col]) == ym]
MonthFilter(data, mes_col, target) ==
    LET Keep(i) == parse_year_month(data[i][mes_col]) = target
    IN  SelectSeq([i \in 1..Len(data) |-> i], Keep)

\* step 3: dfm.loc[_vectorized_normalize_unit(dfm[uni_col]) == target_nu]
UnitFilter_Raw(data, idx, uni_col, unit) ==
    LET Keep(i) == data[i][uni_col] = unit
    IN  SelectSeq(idx, Keep)

UnitFilter(data, idx, uni_col, unit) ==
    LET target_nu == normalize_unit(unit)
        Keep(i)   == normalize_unit(data[i][uni_col]) = target_nu
    IN  SelectSeq(idx, Keep)

\* frame[name] = value on the column list: a new column goes last
AddColumn(columns, name) == IF InSeq(columns, name) THEN columns ELSE Append(columns, name)

\* frame[name] = value on one row
SetCell(row, name, v) == (name :> v) @@ row

\* step 6: the addresses of the Recipient-Email cells, first occurrence kept
RECURSIVE ExtendAll(_)
ExtendAll(cells) ==
    IF cells = <<>> THEN <<>> ELSE split_emails(Head(cells)) \o ExtendAll(Tail(cells))

\* list(dict.fromkeys(seq))
RECURSIVE DictFromKeys(_)
DictFromKeys(seq) ==
    IF seq = <<>> THEN <<>>
    ELSE LET init == DictFromKeys(SubSeq(seq, 1, Len(seq) - 1))
             x    == seq[Len(seq)]
         IN  IF InSeq(init, x) THEN init ELSE Append(init, x)

CollectRecipients_NoDedup(cells) == ExtendAll(cells)

CollectRecipients(cells) == DictFromKeys(ExtendAll(cells))

\* step 7: the critical columns appended to the display list (in place)
EnsureCritical(display_columns) ==
    AddColumn(AddColumn(display_columns, COL_VALOR_MENSAL_FINAL), COL_MES_EMISSAO)

\* the summary of the three early returns
EmptySummary_One == [row_count |-> 1, sum_valor_mensal_final |-> DecZero]

EmptySummary == [row_count |-> 0, sum_valor_mensal_final |-> DecZero]

\* the value of the three early returns
EmptyResult_Raised(wl, ddc) ==
    [outcome |-> "raised", rows |-> <<>>, recipients |-> <<>>,
     summary |-> EmptySummary, index |-> <<>>, wl |-> wl, ddc |-> ddc]

EmptyResult(wl, ddc) ==
    [outcome |-> "returned", rows |-> <<>>, recipients |-> <<>>,
     summary |-> EmptySummary, index |-> <<>>, wl |-> wl, ddc |-> ddc]

\* steps 7 and 8: the display columns, the row dicts and the summary
Project(idx, dfu, columns, total_vmf, recips, default, display_columns, wl, ddc) ==
    LET all_in   == \A k \in 1..Len(display_columns) : InSeq(columns, display_columns[k])
        shown    == {display_columns[k] : k \in 1..Len(display_columns)}
        out_rows == [k \in 1..Len(idx) |->
                        IF all_in THEN [c \in shown |-> dfu[k][c]] ELSE dfu[k]]
    IN  IF total_vmf.kind = "err"
        THEN [outcome |-> "raised", rows |-> <<>>, recipients |-> <<>>,
              summary |-> EmptySummary, index |-> idx, wl |-> wl, ddc |-> ddc]
        ELSE [outcome |-> "returned", rows |-> out_rows, recipients |-> recips,
              summary |-> [row_count |-> Len(out_rows),
                           sum_valor_mensal_final |-> FloatOf(total_vmf),
                           display_columns |-> display_columns,
                           missing_columns |-> <<>>,
                           requested_columns |-> IF default THEN <<>> ELSE display_columns,
                           fallback_used |-> FALSE],
              index |-> idx,
              wl |-> IF default THEN wl ELSE display_columns,
              ddc |-> IF default THEN display_columns ELSE ddc]

\* step 6 on the prepared rows
Recipients(dfu, columns, email_col) ==
    IF ~Falsy(email_col) /\ InSeq(columns, email_col)
    THEN CollectRecipients([k \in 1..Len(dfu) |-> dfu[k][email_col]])
    ELSE <<>>

\* step 4 on one row: the derived month columns, the parsed and the
\* formatted Final-Value, the formatted duration
PrepareRow(r0, mes_col, target, ref_formatted, num, has_horas) ==
    LET tok == parse_year_month(r0[mes_col])
        r1  == SetCell(r0, COL_MES_EMISSAO, _format_mmyy(IF Falsy(tok) THEN target ELSE tok))
        r4  == SetCell(SetCell(SetCell(r1, COL_MES_REFERENCIA, ref_formatted),
                               COL_VMF_NUM, num),
                       COL_VALOR_MENSAL_FINAL, fmt_brl(num))
    IN  IF has_horas
        THEN SetCell(r4, COL_HORAS_ATRASOS, format_val(r4[COL_HORAS_ATRASOS]))
        ELSE r4

\* the columns of dfu after step 4
PreparedColumns(columns) ==
    AddColumn(AddColumn(AddColumn(AddColumn(columns, COL_MES_EMISSAO), COL_MES_REFERENCIA),
                        COL_VMF_NUM), COL_VALOR_MENSAL_FINAL)

\* dfu["_vmf_num"]: the Final-Value cells converted, zero without the column
VmfNum(frame, idx, vmf_col) ==
    IF ~Falsy(vmf_col) /\ InSeq(frame.columns, vmf_col)
    THEN [k \in 1..Len(idx) |-> convert(frame.data[idx[k]][vmf_col])]
    ELSE [k \in 1..Len(idx) |-> DecZero]

\* steps 4 to 8 on the rows idx that passed both filters
PrepareWith(frame, idx, mes_col, email_col, target, wl, ddc, skipna, nums, columns, ref) ==
    Project(idx,
            [k \in 1..Len(idx) |->
                PrepareRow(frame.data[idx[k]], mes_col, target, ref, nums[k],
                           InSeq(columns, COL_HORAS_ATRASOS))],
            columns,
            SeriesSum(nums, skipna),
            Recipients([k \in 1..Len(idx) |-> frame.data[idx[k]]], columns, email_col),
            Falsy(wl),
            EnsureCritical(IF Falsy(wl) THEN ddc ELSE wl),
            wl, ddc)

Prepare(frame, idx, mes_col, email_col, vmf_col, target, wl, ddc, skipna) ==
    PrepareWith(frame, idx, mes_col, email_col, target, wl, ddc, skipna,
                VmfNum(frame, idx, vmf_col),
                PreparedColumns(frame.columns),
                _format_mmyy(_get_prev_month(target)))

\* step 3 and what follows, on the rows dfm left by the month filter
AfterMonth(frame, dfm, uni_col, mes_col, email_col, vmf_col, unit, target, wl, ddc, skipna) ==
    IF dfm = <<>> THEN EmptyResult(wl, ddc)
    ELSE LET dfu == UnitFilter(frame.data, dfm, uni_col, unit)
         IN  IF dfu = <<>> THEN EmptyResult(wl, ddc)
             ELSE Prepare(frame, dfu, mes_col, email_col, vmf_col, target, wl, ddc, skipna)

\* step 2 and what follows, with the columns step 1 resolved
WithColumns(frame, uni_col, mes_col, email_col, vmf_col, unit, target, wl, ddc, skipna) ==
    IF Falsy(uni_col) \/ Falsy(mes_col) THEN EmptyResult(wl, ddc)
    ELSE AfterMonth(frame, MonthFilter(frame.data, mes_col, target),
                    uni_col, mes_col, email_col, vmf_col, unit, target, wl, ddc, skipna)

\* mapping.get("Mes_Emissão_NF") or mapping.get("Mes_Emissao_NF")
MesColumn(resolved) ==
    IF ~Falsy(MapGet(resolved, "Mes_Emissão_NF"))
    THEN MapGet(resolved, "Mes_Emissão_NF")
    ELSE MapGet(resolved, "Mes_Emissao_NF")

\* the result of the call together with the local mapping
WithMapping(frame, resolved, unit, target, wl, ddc, skipna) ==
    [mapping |-> resolved] @@
    WithColumns(frame, MapGet(resolved, "Unidade"), MesColumn(resolved),
                MapGet(resolved, "Email_Destinatario"), MapGet(resolved, "Valor_Mensal_Final"),
                unit, target, wl, ddc, skipna)

\* the caller's table after the call: every column write of steps 2 to 4
\* goes to dfm and dfu, which are .copy() frames
TableAfter_NoCopy(frame, idx) ==
    IF idx = <<>> THEN frame
    ELSE LET added == {COL_MES_EMISSAO, COL_MES_REFERENCIA, COL_VMF_NUM, COL_VALOR_MENSAL_FINAL}
         IN  [columns |-> PreparedColumns(frame.columns),
              data    |-> [i \in 1..Len(frame.data) |->
                              [c \in DOMAIN frame.data[i] \cup added |->
                                  IF c \in DOMAIN frame.data[i] /\ ~InSeq(idx, i)
                                  THEN frame.data[i][c] ELSE None]]]

TableAfter(frame, idx) == frame

filter_and_prepare(frame, unit, target, wl, ddc, skipna) ==
    WithMapping(frame, map_columns(frame.columns), unit, target, wl, ddc, skipna)

---------------------------------------------------------------------------
(* Workbook Locator and Sheet Reader: extractor.Extractor *)

\* Path.glob on one directory level: "*" stands for any run of characters
RECURSIVE GlobMatch(_, _)
GlobMatch(pat, name) ==
    IF pat = <<>> THEN name = <<>>
    ELSE IF Head(pat) = "*"
         THEN \/ GlobMatch(Tail(pat), name)
              \/ name # <<>> /\ GlobMatch(pat, Tail(name))
         ELSE name # <<>> /\ Head(name) = Head(pat) /\ GlobMatch(Tail(pat), Tail(name))

\* str.startswith
StartsWith(s, prefix) == Len(s) >= Len(prefix) /\ SubSeq(s, 1, Len(prefix)) = prefix

LOCK_PREFIX == <<"~", "$">>

\* the filename patterns of find_workbook, most specific first
patterns(regiao) ==
    << <<"*", "p", "l", "a", "n", "i", "l", "h", "a", " ", "*", "M", "e", "d", "i", "ç", "ã", "o", " ", "M", "e", "n", "s", "a", "l", "*", "_">> \o regiao \o <<"_", "*", ".", "x", "l", "s", "x">>,
       <<"*", "M", "e", "d", "i", "ç", "ã", "o", " ", "M", "e", "n", "s", "a", "l", "*", "_">> \o regiao \o <<".", "x", "l", "s", "x">>,
       <<"*", "M", "e", "d", "i", "ç", "ã", "o", "*">> \o regiao \o <<"*", ".", "x", "l", "s", "x">> >>

XLSX_PATTERN == <<"*", ".", "x", "l", "s", "x">>

\* [m for m in xlsx_dir.glob(pat) if not m.name.startswith("~$")]
Matches(files, pat) ==
    {f \in files : GlobMatch(pat, f.name) /\ ~StartsWith(f.name, LOCK_PREFIX)}

\* matches.sort(key=st_mtime, reverse=True)[0]: a match no other match is
\* newer than (the sort is stable, glob order decides among equal times)
Newest_Oldest(matches) == {f \in matches : \A g \in matches : g.mtime >= f.mtime}

Newest(matches) == {f \in matches : \A g \in matches : g.mtime <= f.mtime}

\* f"Faturamento {regiao}".lower().strip()
SheetTarget(regiao) == Strip(LowerStr(<<"F", "a", "t", "u", "r", "a", "m", "e", "n", "t", "o", " ">> \o regiao))

\* s.lower().strip() == target or target in s.lower().strip()
SheetQualifies(s, target) ==
    \E n \in {Strip(LowerStr(s))} : n = target \/ Contains(n, target)

\* pd.ExcelFile(path).sheet_names, the empty tuple when the file does not open
OpenSheetNames(f) == IF f.readable THEN f.sheets ELSE <<>>

\* Extractor._get_sheet_names behind its lru_cache
_get_sheet_names(cache, f) ==
    IF f.name \in DOMAIN cache THEN cache[f.name] ELSE OpenSheetNames(f)

\* the cache after _get_sheet_names was called on the files visited
NamesCacheFill(cache, visited) ==
    [n \in (DOMAIN cache) \cup {f.name : f \in visited} |->
        IF n \in DOMAIN cache THEN cache[n]
        ELSE OpenSheetNames(CHOOSE f \in visited : f.name = n)]

\* some sheet of f qualifies for the region
HasRegionSheet(cache, f, regiao) ==
    \E names \in {_get_sheet_names(cache, f)} :
        \E i \in 1..Len(names) : SheetQualifies(names[i], SheetTarget(regiao))

\* the pattern search: the index of the first pattern with a match, 0 if none
FirstPattern(files, regiao) ==
    FirstTrue([k \in 1..3 |-> Matches(files, patterns(regiao)[k]) # {}])

\* the fallback scan over the candidates in glob order (any order): every
\* [path, visited] the scan can end with; path None when no candidate qualifies
FallbackScan_StopAtUnreadable(files, cache, regiao) ==
    LET candidates == Matches(files, XLSX_PATTERN)
        broken     == {f \in candidates : f.name \notin DOMAIN cache /\ ~f.readable}
        hits       == {f \in candidates : HasRegionSheet(cache, f, regiao)}
    IN  IF hits = {} \/ broken # {}
        THEN {[path |-> None, visited |-> candidates]}
        ELSE {[path |-> f.name, visited |-> v \cup {f}] :
                 f \in hits, v \in SUBSET (candidates \ hits)}

FallbackScan(files, cache, regiao) ==
    LET candidates == Matches(files, XLSX_PATTERN)
        hits       == {f \in candidates : HasRegionSheet(cache, f, regiao)}
    IN  IF hits = {}
        THEN {[path |-> None, visited |-> candidates]}
        ELSE {[path |-> f.name, visited |-> v \cup {f}] :
                 f \in hits, v \in SUBSET (candidates \ hits)}

\* Extractor.find_workbook: every [path, visited] a call can end with
find_workbook(files, cache, regiao, first) ==
    IF first > 0
    THEN {[path |-> f.name, visited |-> {}] :
             f \in Newest(Matches(files, patterns(regiao)[first]))}
    ELSE FallbackScan(files, cache, regiao)

\* str.replace(old, new) for a non-empty old
RECURSIVE ReplaceAll(_, _, _)
ReplaceAll(s, old, new) ==
    IF s = <<>> THEN <<>>
    ELSE IF StartsWith(s, old)
         THEN new \o ReplaceAll(SubSeq(s, Len(old) + 1, Len(s)), old, new)
         ELSE <<Head(s)>> \o ReplaceAll(Tail(s), old, new)

\* HEADER_CLEANUP.sub(" ", s): every run of whitespace becomes one space
RECURSIVE HEADER_CLEANUP_sub(_)
HEADER_CLEANUP_sub(s) ==
    IF s = <<>> THEN <<>>
    ELSE IF IsSpace(Head(s))
         THEN <<" ">> \o HEADER_CLEANUP_sub(LStrip(s))
         ELSE <<Head(s)>> \o HEADER_CLEANUP_sub(Tail(s))

\* the replacements made on a header before the whitespace runs collapse
HeaderReplaced(c) ==
    ReplaceAll(ReplaceAll(ReplaceAll(ReplaceAll(c,
        <<"nbsp">>, <<" ">>), NBSP_MARKUP, <<" ">>), <<"\r">>, <<" ">>), <<"\n">>, <<" ">>)

\* the cleaned header of read_region_sheet
CleanHeader_NoCollapse(c) == Strip(HeaderReplaced(c))

CleanHeader(c) == Strip(HEADER_CLEANUP_sub(HeaderReplaced(c)))

\* a cell as read with dtype=object: missing, a string or a whole number
NaCell == [kind |-> "na", text |-> <<>>, num |-> 0]
StrCell(s) == [kind |-> "str", text |-> s, num |-> 0]
IntCell(n) == [kind |-> "int", text |-> <<>>, num |-> n]

\* fillna("").astype(str) on one cell
CellText(v) ==
    IF v.kind = "na" THEN <<>>
    ELSE IF v.kind = "int" THEN NatToStr(v.num)
    ELSE v.text

\* fillna("").astype(str).str.strip() on one cell
CleanCell(v) == Strip(CellText(v))

\* the index of the sheet read_region_sheet reads, 0 when no sheet qualifies
RegionSheet_NoStrip(names, regiao) ==
    FirstTrue([i \in 1..Len(names) |-> LowerStr(names[i]) = SheetTarget(regiao)])

RegionSheet(names, regiao) ==
    FirstTrue([i \in 1..Len(names) |-> SheetQualifies(names[i], SheetTarget(regiao))])

\* f"{path}:{regiao}"
cache_key(f, regiao) == f.name \o <<":">> \o regiao

NoTable == [columns |-> <<>>, data |-> <<>>]

\* the RuntimeError of read_region_sheet, by the parts of its message
SheetNotFound(f, names, regiao) ==
    [outcome |-> "sheet_not_found", path |-> f.name, table |-> NoTable,
     sheet_name |-> None, regiao |-> regiao, listed |-> names]

\* pd.read_excel raises: the file has no sheet of the name asked for
ReadExcelError(f, regiao) ==
    [outcome |-> "ValueError", path |-> f.name, table |-> NoTable,
     sheet_name |-> None, regiao |-> regiao, listed |-> <<>>]

\* the cleaned table: the headers, then column by column the cells; a header
\* name carried by two columns selects a frame, which has no .str
CleanTable(f, names, regiao, sheet, columns) ==
    IF \E i, j \in 1..Len(columns) : i < j /\ columns[i] = columns[j]
    THEN [outcome |-> "AttributeError", path |-> f.name, table |-> NoTable,
          sheet_name |-> None, regiao |-> regiao, listed |-> <<>>]
    ELSE [outcome |-> "returned", path |-> f.name,
          table |-> [columns |-> columns,
                     data |-> [r \in 1..Len(f.data) |->
                                  [c \in 1..Len(columns) |-> CleanCell(f.data[r][c])]]],
          sheet_name |-> names[sheet], regiao |-> regiao, listed |-> <<>>]

\* read_region_sheet past its cache lookup
ReadSheet(f, names, regiao, sheet) ==
    IF sheet = 0 THEN SheetNotFound(f, names, regiao)
    ELSE IF ~InSeq(OpenSheetNames(f), names[sheet]) THEN ReadExcelError(f, regiao)
    ELSE CleanTable(f, names, regiao, sheet,
                    [c \in 1..Len(f.columns) |-> CleanHeader(f.columns[c])])

\* Extractor.read_region_sheet: a cached result, or the sheet read now
read_region_sheet(sheets, names, f, regiao, use_cache) ==
    IF use_cache /\ cache_key(f, regiao) \in DOMAIN sheets
    THEN sheets[cache_key(f, regiao)]
    ELSE ReadSheet(f, names, regiao, RegionSheet(names, regiao))

\* self._sheet_cache after the call
SheetCacheAfter_NoStore(sheets, f, regiao, use_cache, result) == sheets

SheetCacheAfter(sheets, f, regiao, use_cache, result) ==
    IF use_cache /\ result.outcome = "returned"
    THEN [k \in (DOMAIN sheets) \cup {cache_key(f, regiao)} |->
             IF k = cache_key(f, regiao) THEN result ELSE sheets[k]]
    ELSE sheets

---------------------------------------------------------------------------
(* Persistent cache: persistent_cache.PersistentCache *)

\* ttl_hours = 24, in ticks of twelve hours
TTL_TICKS == 2

\* a dict without the key
Without(m, k) ==
    IF (DOMAIN m) \ {k} = {} THEN <<>> ELSE [x \in (DOMAIN m) \ {k} |-> m[x]]

\* a dict with the key set
With(m, k, v) == [x \in (DOMAIN m) \cup {k} |-> IF x = k THEN v ELSE m[x]]

\* what json.load can hand over: a dict of entries, or another JSON value
MetaDict(entries) == [kind |-> "dict", entries |-> entries]
MetaNull == [kind |-> "null", entries |-> <<>>]
MetaList == [kind |-> "list", entries |-> <<>>]

\* the states of the file _metadata.json
FileAbsent == [kind |-> "absent", value |-> MetaDict(<<>>)]
FileUnreadable == [kind |-> "unreadable", value |-> MetaDict(<<>>)]
FileJson(v) == [kind |-> "json", value |-> v]

\* a metadata entry whose 'created' is no ISO date
BAD_DATE == -1

\* PersistentCache._load_metadata
_load_metadata(c) ==
    [c EXCEPT !.metadata = IF c.metafile.kind = "json" THEN c.metafile.value
                           ELSE MetaDict(<<>>)]

\* PersistentCache._save_metadata: a failed write is printed, nothing more
_save_metadata(c) ==
    IF c.writable THEN [c EXCEPT !.metafile = FileJson(c.metadata)] ELSE c

\* the results of the calls
Ret(kind) == [kind |-> kind, value |-> None, flag |-> FALSE, count |-> 0]
RetValue(v) == [Ret("value") EXCEPT !.value = v]
RetBool(b) == [Ret("bool") EXCEPT !.flag = b]
RetCount(n) == [Ret("count") EXCEPT !.count = n]

\* key in self.metadata: raises on None, False on a list
KeyInMetadata(c, key) == c.metadata.kind = "dict" /\ key \in DOMAIN c.metadata.entries

\* PersistentCache.delete past cache_file.unlink()
DeleteMetadata(c, key) ==
    IF c.metadata.kind = "null" THEN [c |-> c, ret |-> RetBool(FALSE)]
    ELSE IF KeyInMetadata(c, key)
    THEN [c |-> _save_metadata(
                    [c EXCEPT !.metadata.entries = Without(c.metadata.entries, key)]),
          ret |-> RetBool(TRUE)]
    ELSE [c |-> c, ret |-> RetBool(TRUE)]

\* PersistentCache.delete
pc_delete(c, key) ==
    IF key \in DOMAIN c.blobs
    THEN IF c.writable
         THEN DeleteMetadata([c EXCEPT !.blobs = Without(c.blobs, key)], key)
         ELSE [c |-> c, ret |-> RetBool(FALSE)]
    ELSE DeleteMetadata(c, key)

\* the expiry test of get and cleanup_expired
Expired(created, now) == now - created > TTL_TICKS

\* the value pickle.load returns, the default when the file does not load
LoadBlob(c, key) ==
    IF c.blobs[key].state = "ok" THEN RetValue(c.blobs[key]) ELSE Ret("default")

\* PersistentCache.get with every entry taken as fresh
pc_get_NoExpiry(c, key, now) ==
    IF key \notin DOMAIN c.blobs THEN [c |-> c, ret |-> Ret("default")]
    ELSE [c |-> c, ret |-> LoadBlob(c, key)]

\* PersistentCache.get
pc_get(c, key, now) ==
    IF key \notin DOMAIN c.blobs THEN [c |-> c, ret |-> Ret("default")]
    ELSE IF c.metadata.kind = "null" THEN [c |-> c, ret |-> Ret("raised")]
    ELSE IF KeyInMetadata(c, key)
    THEN IF c.metadata.entries[key] = BAD_DATE
         THEN [c |-> c, ret |-> Ret("raised")]
         ELSE IF Expired(c.metadata.entries[key], now)
              THEN [c |-> pc_delete(c, key).c, ret |-> Ret("default")]
              ELSE [c |-> c, ret |-> LoadBlob(c, key)]
    ELSE [c |-> c, ret |-> LoadBlob(c, key)]

\* PersistentCache.set: the blob first, then the index
pc_set(c, key, value, now) ==
    IF ~c.writable THEN [c |-> c, ret |-> RetBool(FALSE)]
    ELSE IF c.metadata.kind # "dict"
    THEN [c |-> [c EXCEPT !.blobs = With(c.blobs, key,
                              [state |-> "ok", value |-> value, setAt |-> now])],
          ret |-> RetBool(FALSE)]
    ELSE [c |-> _save_metadata(
                    [c EXCEPT !.blobs = With(c.blobs, key,
                                  [state |-> "ok", value |-> value, setAt |-> now]),
                              !.metadata.entries = With(c.metadata.entries, key, now)]),
          ret |-> RetBool(TRUE)]

\* PersistentCache.clear: metadata.clear() is outside every try
pc_clear(c) ==
    IF c.metadata.kind = "null"
    THEN [c |-> [c EXCEPT !.blobs = IF c.writable THEN <<>> ELSE c.blobs],
          ret |-> Ret("raised")]
    ELSE [c |-> _save_metadata(
                    [c EXCEPT !.blobs = IF c.writable THEN <<>> ELSE c.blobs,
                              !.metadata.entries = <<>>]),
          ret |-> RetCount(IF c.writable THEN Cardinality(DOMAIN c.blobs) ELSE 0)]

\* the keys cleanup_expired collects
ExpiredKeys(c, now) ==
    {k \in DOMAIN c.metadata.entries : Expired(c.metadata.entries[k], now)}

\* delete(key) for each collected key, in the order of the dict
RECURSIVE DeleteAll(_, _, _)
DeleteAll(c, keys, count) ==
    IF keys = {} THEN [c |-> c, ret |-> RetCount(count)]
    ELSE LET k == CHOOSE x \in keys : TRUE
             d == pc_delete(c, k)
         IN  DeleteAll(d.c, keys \ {k}, IF d.ret.flag THEN count + 1 ELSE count)

\* PersistentCache.cleanup_expired
pc_cleanup_expired(c, now) ==
    IF c.metadata.kind # "dict" THEN [c |-> c, ret |-> Ret("raised")]
    ELSE IF \E k \in DOMAIN c.metadata.entries : c.metadata.entries[k] = BAD_DATE
    THEN [c |-> c, ret |-> Ret("raised")]
    ELSE DeleteAll(c, ExpiredKeys(c, now), 0)

---------------------------------------------------------------------------
(* Sheet reader behind the persistent cache: persistent_cache.CachedExtractor *)

\* f"{path}:{regiao}:{mtime}"
cached_key(f, regiao) == f.name \o <<":">> \o regiao \o <<":">> \o NatToStr(f.mtime)

\* get raised: the error leaves read_region_sheet
CacheError(f, regiao) ==
    [outcome |-> "cache_error", path |-> f.name, table |-> NoTable,
     sheet_name |-> None, regiao |-> regiao, listed |-> <<>>]

\* CachedExtractor.read_region_sheet on a miss: the extractor reads with
\* use_cache=False, and what it returns is stored
CachedMiss(c, r, f, regiao, now) ==
    [c |-> IF r.outcome = "returned" THEN pc_set(c, cached_key(f, regiao), r, now).c
           ELSE c,
     out |-> r, hit |-> FALSE]

\* CachedExtractor.read_region_sheet, g being what cache.get answered
CachedAfterGet(g, names, f, regiao, now) ==
    IF g.ret.kind = "raised"
    THEN [c |-> g.c, out |-> CacheError(f, regiao), hit |-> FALSE]
    ELSE IF g.ret.kind = "value"
    THEN [c |-> g.c, out |-> g.ret.value.value, hit |-> TRUE]
    ELSE CachedMiss(g.c, ReadSheet(f, names, regiao, RegionSheet(names, regiao)),
                    f, regiao, now)

\* CachedExtractor.read_region_sheet
cached_read_region_sheet(c, names, f, regiao, now) ==
    CachedAfterGet(pc_get(c, cached_key(f, regiao), now), names, f, regiao, now)

---------------------------------------------------------------------------
(* The portal's fallback month parser: utils/pipeline.parse_year_month *)

\* (0?[1-9]|1[0-2]) tried at s: the number of characters the group takes,
\* 0 when it does not match; the first alternative is tried first and the
\* second only when the first fails
MonthGroupLen(s) ==
    IF Len(s) >= 2 /\ s[1] = "0" /\ IsDigit(s[2]) /\ s[2] # "0" THEN 2
    ELSE IF Len(s) >= 1 /\ IsDigit(s[1]) /\ s[1] # "0" THEN 1
    ELSE IF Len(s) >= 2 /\ s[1] = "1" /\ s[2] \in {"0", "1", "2"} THEN 2
    ELSE 0

\* (20\d{2})[-/](0?[1-9]|1[0-2]) matched at the start of s
MatchesAtStart(s, group) ==
    /\ Len(s) >= 6
    /\ s[1] = "2" /\ s[2] = "0" /\ IsDigit(s[3]) /\ IsDigit(s[4])
    /\ s[5] \in {"-", "/"}
    /\ group > 0

\* f"{m.group(1)}-{int(m.group(2)):02d}"
MonthToken(s, group) ==
    SubSeq(s, 1, 4) \o <<"-">> \o Pad2(DigitsToNat(SubSeq(s, 6, 5 + group)))

\* re.search: the leftmost position of s where the pattern matches
RECURSIVE SearchMonth(_)
SearchMonth(s) ==
    IF s = <<>> THEN None
    ELSE IF MatchesAtStart(s, MonthGroupLen(SubSeq(s, 6, Len(s))))
    THEN MonthToken(s, MonthGroupLen(SubSeq(s, 6, Len(s))))
    ELSE SearchMonth(Tail(s))

\* pipeline.parse_year_month when the root function is unavailable or raises
portal_parse_year_month(x) == SearchMonth(x)

---------------------------------------------------------------------------
(* The tables and the calls of the model *)

\* a header and the kind of cell its column holds
Col(name, kind) == [name |-> name, kind |-> kind]

Layouts ==
    { \* every default display column and a recipient column
      << Col(<<"U", "n", "i", "d", "a", "d", "e">>, "unit"),
         Col(HDR_CATEGORIA, "other"),
         Col(HDR_FORNECEDOR, "other"),
         Col(<<"H", "C", " ", "P", "l", "a", "n", "i", "l", "h", "a">>, "other"),
         Col(<<"D", "i", "a", "s", " ", "F", "a", "l", "t", "a", "s">>, "other"),
         Col(COL_HORAS_ATRASOS, "horas"),
         Col(<<"V", "a", "l", "o", "r", " ", "P", "l", "a", "n", "i", "l", "h", "a">>, "other"),
         Col(<<"D", "e", "s", "c", ".", " ", "F", "a", "l", "t", "a", " ", "V", "a", "l", "i", "d", "a", "d", "o", " ", "A", "t", "l", "a", "s">>, "other"),
         Col(<<"D", "e", "s", "c", ".", " ", "A", "t", "r", "a", "s", "o", " ", "V", "a", "l", "i", "d", "a", "d", "o", " ", "A", "t", "l", "a", "s">>, "other"),
         Col(<<"D", "e", "s", "c", "o", "n", "t", "o", " ", "S", "L", "A", " ", "M", "ê", "s">>, "other"),
         Col(COL_VALOR_MENSAL_FINAL, "vmf"),
         Col(COL_MES_REFERENCIA, "ref"),
         Col(COL_MES_EMISSAO, "mes"),
         Col(<<"E", "-", "m", "a", "i", "l">>, "email") >>,
      \* synonyms of the canonical fields, headers with stray whitespace
      << Col(HDR_UNIDADE_SHOPPING, "unit"),
         Col(<<"C", "o", "m", "p", "e", "t", "ê", "n", "c", "i", "a", " ", "N", "F">>, "mes"),
         Col(<<"E", "m", "a", "i", "l", "s">>, "email"),
         Col(<<"V", "a", "l", "o", "r", " ", "F", "i", "n", "a", "l">>, "vmf"),
         Col(COL_HORAS_ATRASOS, "horas"),
         Col(COL_MES_REFERENCIA, "ref") >>,
      \* no Unit column
      << Col(HDR_CATEGORIA, "unit"),
         Col(COL_MES_EMISSAO, "mes"),
         Col(<<"E", "-", "m", "a", "i", "l">>, "email"),
         Col(COL_VALOR_MENSAL_FINAL, "vmf") >>,
      \* no Issue-Month column
      << Col(<<"U", "n", "i", "d", "a", "d", "e">>, "unit"),
         Col(<<"E", "-", "m", "a", "i", "l">>, "email"),
         Col(<<"V", "a", "l", "o", "r", " ", "M", "e", "n", "s", "a", "l">>, "vmf") >>,
      \* neither a Final-Value nor a Recipient-Email column
      << Col(<<"U", "n", "i", "d", "a", "d", "e">>, "unit"),
         Col(HDR_MES_NF, "mes"),
         Col(COL_MES_REFERENCIA, "ref") >> }

Cells(unit, mes, email, vmf, horas, ref) ==
    [unit |-> unit, mes |-> mes, email |-> email, vmf |-> vmf, horas |-> horas,
     ref |-> ref, other |-> <<"x">>]

\* the rows a table is made of
SampleRows ==
    { Cells(<<"S", "h", "o", "p", "p", "i", "n", "g", " ", "A", "B", "C">>, <<"2", "0", "2", "5", "-", "1", "1">>, <<"a", "@", "x", ";", " ", "b", "@", "y", ",", "a", "@", "x">>, <<"1", ".", "5", "0", "0", ",", "0", "0">>, <<"1", ":", "9", "0">>, <<"0", "1", "/", "2", "0">>),
      Cells(<<"s", "h", "o", "p", "p", "i", "n", "g", " ", " ", "a", "b", "c">>, <<"2", "0", "2", "5", "/", "1", "1">>, <<"b", "@", "y", ";", "c", "@", "z">>, <<"2", "0", "0", ".", "5">>, <<"-", "0", ":", "3", "0">>, <<>>),
      Cells(<<"S", "h", "o", "p", "p", "i", "n", "g", " ", "X", "Y", "Z">>, <<"2", "0", "2", "5", "-", "1", "1">>, <<"d", "@", "w">>, <<"I", "n", "f", "i", "n", "i", "t", "y">>, <<"2", ",", "5">>, <<"0", "1", "/", "2", "0">>),
      Cells(<<"S", "h", "o", "p", "p", "i", "n", "g", " ", "A", "B", "C">>, <<"n", "/", "a">>, <<"e", "@", "v">>, <<>>, <<"I", "n", "f", "o", "r", "m", "a", "c", "a", "o", " ", "P", "e", "n", "d", "e", "n", "t", "e">>, <<"x">>),
      Cells(<<"S", "h", "o", "p", "p", "i", "n", "g", " ", "X", "Y", "Z">>, <<"2", "0", "2", "5", "-", "1">>, <<>>, <<"-", "3">>, <<"a", "b", "c">>, <<>>),
      Cells(<<"S", "h", "o", "p", "p", "i", "n", "g", " ", "A", "B", "C">>, <<"2", "0", "2", "5", "-", "1", "1">>, <<"a", "@", "x">>, <<"N", "a", "N">>, <<"4", "h", " ", "3", "0", "m">>, <<"1", "1", "/", "2", "5">>),
      Cells(<<"S", "h", "o", "p", "p", "i", "n", "g", " ", "X", "Y", "Z">>, <<"2", "0", "2", "5", "/", "1", "1">>, <<"d", "@", "w", " ", ",", " ", "f", "@", "u">>, <<"-", "I", "n", "f", "i", "n", "i", "t", "y">>, <<"0", ":", "0", "6">>, <<>>) }

\* the Sheet Table with the headers of layout and the given rows
Table(layout, sample) ==
    [columns |-> [j \in 1..Len(layout) |-> layout[j].name],
     data    |-> [i \in 1..Len(sample) |->
                    [c \in {layout[j].name : j \in 1..Len(layout)} |->
                        sample[i][layout[CHOOSE j \in 1..Len(layout) : layout[j].name = c].kind]]]]

RowSeqs == UNION {[1..n -> SampleRows] : n \in 0..MaxRows}

Tables == {Table(l, s) : l \in Layouts, s \in RowSeqs}

UnitInputs == {<<"S", "h", "o", "p", "p", "i", "n", "g", " ", "A", "B", "C">>, <<"S", "H", "O", "P", "P", "I", "N", "G", " ", "X", "Y", "Z">>}

MonthInputs == {<<"2", "0", "2", "5", "-", "1", "1">>, <<"2", "0", "2", "5", "-", "0", "1">>}

\* None: the caller passes no list
WhitelistInputs ==
    { None,
      << <<"U", "n", "i", "d", "a", "d", "e">>, COL_HORAS_ATRASOS >>,
      << <<"U", "n", "i", "d", "a", "d", "e">>, HDR_FORNECEDOR, COL_MES_REFERENCIA >> }

FPInit ==
    /\ df \in Tables
    /\ DEFAULT_DISPLAY_COLUMNS = DEFAULT_DISPLAY_COLUMNS_INIT
    /\ columns_whitelist = None
    /\ whitelist_arg = None
    /\ ncalls = 0
    /\ unidade = None
    /\ ym = None
    /\ rows = <<>>
    /\ recipients = <<>>
    /\ summary = EmptySummary
    /\ mapping = <<>>
    /\ dfu_index = <<>>
    /\ outcome = "none"

FPIdle ==
    /\ df = [columns |-> <<>>, data |-> <<>>]
    /\ DEFAULT_DISPLAY_COLUMNS = DEFAULT_DISPLAY_COLUMNS_INIT
    /\ columns_whitelist = None
    /\ whitelist_arg = None
    /\ ncalls = 0
    /\ unidade = None
    /\ ym = None
    /\ rows = <<>>
    /\ recipients = <<>>
    /\ summary = EmptySummary
    /\ mapping = <<>>
    /\ dfu_index = <<>>
    /\ outcome = "none"

MapperIdle ==
    /\ mtable = <<>>
    /\ mfirst = None
    /\ mlast = None
    /\ mcalls = 0
    /\ mothers = 0

HorasIdle ==
    /\ hIn = <<>>
    /\ hMeta = [form |-> "raw", class |-> "empty"]
    /\ hOut = None
    /\ hpc = "idle"

NoCall == [op |-> "none", regiao |-> None, path |-> None, use_cache |-> FALSE,
           hit |-> FALSE, scanned |-> FALSE]

NoOut == [outcome |-> "none", path |-> None, table |-> NoTable,
          sheet_name |-> None, regiao |-> None, listed |-> <<>>]

ExtractorIdle ==
    /\ xlsx_dir = {}
    /\ names_cache = <<>>
    /\ _sheet_cache = <<>>
    /\ xcall = NoCall
    /\ xout = NoOut

\* PersistentCache(cache_dir) on a directory that holds nothing yet
FreshCache ==
    [blobs |-> <<>>, metafile |-> FileAbsent, metadata |-> MetaDict(<<>>),
     writable |-> TRUE]

NoPCall == [op |-> "none", key |-> None]

PCacheIdle ==
    /\ pc_blobs = FreshCache.blobs
    /\ pc_metafile = FreshCache.metafile
    /\ pc_metadata = FreshCache.metadata
    /\ pc_writable = FreshCache.writable
    /\ clock = 0
    /\ faults = 0
    /\ pcall = NoPCall
    /\ pout = Ret("none")

PortalMonthIdle ==
    /\ yIn = <<>>
    /\ yMeta = [form |-> "none", year |-> 0, month |-> 0]
    /\ yOut = None
    /\ ypc = "idle"

---------------------------------------------------------------------------
(* portal_streamlit/services/config_service.py: ConfigService *)

\* constants.py: the recommended and the optional report columns
COLUMN_DEFAULTS ==
    <<"Unidade", "Categoria", "Fornecedor", "HC Planilha", "Dias Faltas", "Horas Atrasos",
      "Valor Planilha", "Desc. Falta Validado Atlas", "Desc. Atraso Validado Atlas",
      "Desconto SLA Mês", "Valor Mensal Final", "Mês de emissão da NF",
      "Mês de referência para faturamento">>

COLUMN_EXTRAS ==
    <<"Desconto SLA Retroativo", "Desconto Equipamentos", "Prêmio Assiduidade",
      "Outros descontos", "Taxa de prorrogação do prazo pagamento",
      "Valor mensal com prorrogação do prazo pagamento", "Retroativo de dissídio",
      "Parcela (x/x)", "Valor extras validado Atlas">>

\* ColumnManager._column_set
_column_set ==
    {COLUMN_DEFAULTS[i] : i \in 1..Len(COLUMN_DEFAULTS)}
        \cup {COLUMN_EXTRAS[i] : i \in 1..Len(COLUMN_EXTRAS)}

\* ColumnManager.validate_columns: (is_valid, invalid_columns)
validate_columns(columns) ==
    IF columns = <<>> THEN [ok |-> FALSE, invalid |-> <<>>]
    ELSE LET Unknown(c) == c \notin _column_set
         IN  [ok      |-> SelectSeq(columns, Unknown) = <<>>,
              invalid |-> SelectSeq(columns, Unknown)]

\* re.match(r"^20\d{2}-(0[1-9]|1[0-2])$", str(month_str).strip())
_validate_month_format(month_str) ==
    \E s \in {Strip(month_str)} :
        /\ Len(s) = 7
        /\ s[1] = "2"
        /\ s[2] = "0"
        /\ IsDigit(s[3])
        /\ IsDigit(s[4])
        /\ s[5] = "-"
        /\ \/ s[6] = "0" /\ IsDigit(s[7]) /\ s[7] # "0"
           \/ s[6] = "1" /\ s[7] \in {"0", "1", "2"}

\* a config_data dict: whether it has the key "columns" and the key
\* "month_reference", and their values; a value of "columns" is a list or not
ConfigData(has_columns, is_list, items, has_month, month) ==
    [has_columns |-> has_columns, columns |-> [list |-> is_list, items |-> items],
     has_month |-> has_month, month |-> month]

\* validate_config, the check of "columns"
ColumnErrors(config_data) ==
    IF ~config_data.has_columns THEN <<>>
    ELSE IF ~config_data.columns.list THEN <<"columns_not_a_list">>
    ELSE IF Len(config_data.columns.items) = 0 THEN <<"no_column">>
    ELSE IF ~validate_columns(config_data.columns.items).ok THEN <<"invalid_columns">>
    ELSE <<>>

\* validate_config, the check of "month_reference"
MonthErrors(config_data) ==
    IF config_data.has_month /\ ~_validate_month_format(config_data.month)
    THEN <<"invalid_month">>
    ELSE <<>>

\* ConfigService.validate_config: (is_valid, error_messages)
validate_config(config_data) ==
    [ok     |-> ColumnErrors(config_data) \o MonthErrors(config_data) = <<>>,
     errors |-> ColumnErrors(config_data) \o MonthErrors(config_data)]

\* the loop over target_units with the set seen: first occurrences, in order
UniqueUnits(target_units) == DictFromKeys(target_units)

\* save_unit_override(unit, config_data) for the first units of the list,
\* up to the one whose save raises (fail_at, 0 when none does)
SaveOverrides(overrides, units, config_data, fail_at) ==
    LET saved == {units[i] : i \in 1..(IF fail_at = 0 THEN Len(units) ELSE fail_at - 1)}
    IN  IF saved = {} THEN overrides
        ELSE [u \in (DOMAIN overrides) \cup saved |->
                 IF u \in saved THEN config_data ELSE overrides[u]]

\* len(history) > 100: history[-100:]
HISTORY_LIMIT == 100

LastEntries(history) ==
    IF Len(history) > HISTORY_LIMIT
    THEN SubSeq(history, Len(history) - HISTORY_LIMIT + 1, Len(history))
    ELSE history

\* the record _log_config_change appends (its timestamp left out)
HistoryEntry(action, units, config_data, user) ==
    [user |-> user, action |-> action, units_affected |-> units, config |-> config_data]

\* ConfigService._log_config_change: the history file afterwards. A file that
\* does not parse makes json.load raise, fault "open" makes open(..., "w")
\* raise, fault "dump" makes json.dump raise after the file was truncated;
\* every exception ends the function silently
_log_config_change(file, entry, fault) ==
    IF file.kind = "corrupt" THEN file
    ELSE IF fault = "open" THEN file
    ELSE IF fault = "dump" THEN [kind |-> "corrupt", history |-> <<>>]
    ELSE [kind |-> "json", history |-> LastEntries(Append(file.history, entry))]

\* ConfigService.apply_config_to_units: what it returns, and the overrides
\* and the history file it leaves
apply_config_to_units(overrides, file, config_data, target_units, user, fail_at, fault) ==
    IF ~validate_config(config_data).ok
    THEN [success |-> FALSE, message |-> "Erro de validação", overrides |-> overrides,
          file |-> file]
    ELSE IF UniqueUnits(target_units) = <<>>
    THEN [success |-> FALSE, message |-> "Nenhuma unidade selecionada",
          overrides |-> overrides, file |-> file]
    ELSE IF fail_at > 0
    THEN [success |-> FALSE, message |-> "Erro ao salvar configuração",
          overrides |-> SaveOverrides(overrides, UniqueUnits(target_units), config_data, fail_at),
          file |-> file]
    ELSE [success |-> TRUE,
          message |-> IF Len(UniqueUnits(target_units)) = 1
                      THEN "Configuração aplicada em 1 unidade"
                      ELSE "Configuração aplicada em N unidades",
          overrides |-> SaveOverrides(overrides, UniqueUnits(target_units), config_data, 0),
          file |-> _log_config_change(file,
                       HistoryEntry("apply_config", UniqueUnits(target_units), config_data, user),
                       fault)]

NoConfig == ConfigData(FALSE, TRUE, <<>>, FALSE, <<>>)

ConfigIdle ==
    /\ unit_overrides = <<>>
    /\ history_file = [kind |-> "absent", history |-> <<>>]
    /\ cfaults = 0
    /\ napply = 0
    /\ ccall = [op |-> "none", config |-> NoConfig, units |-> <<>>, user |-> ""]
    /\ cout = [success |-> FALSE, message |-> ""]

---------------------------------------------------------------------------
(* portal_streamlit/pages/1_Execução.py: the monitoring loop *)

\* current_unit before the first announcement
INICIANDO == "Iniciando..."

\* a line of the subprocess: the stream it is written to, whether re_error
\* finds "[ERROR]" or "[ERRO]" in it, and the name re_unit_start captures
\* after "Processando unidade" (NoUnit when the line is no announcement)
NoUnit == ""

Line(stream, error, unit) == [stream |-> stream, error |-> error, unit |-> unit]

\* update_ui: min(processed_count, total_units)
UpdateUiCount(count, total) == IF count < total THEN count ELSE total

MonitorIdle ==
    /\ child_script = <<>>
    /\ child_state = "exited"
    /\ returncode = 0
    /\ stdout_pipe = <<>>
    /\ stderr_pipe = <<>>
    /\ mon_pc = "idle"
    /\ total_units = 0
    /\ full_logs = <<>>
    /\ current_unit = INICIANDO
    /\ processed_units = {}
    /\ processed_count = 0
    /\ errors_count = 0
    /\ display_count = 0
    /\ label_count = 0
    /\ status_state = "running"
    /\ stderr_output = <<>>

\* the components a specification does not run stay as constructed
IdleExcept(running) ==
    /\ IF "f" \in running THEN TRUE ELSE FPIdle
    /\ IF "h" \in running THEN TRUE ELSE HorasIdle
    /\ IF "m" \in running THEN TRUE ELSE MapperIdle
    /\ IF "x" \in running THEN TRUE ELSE ExtractorIdle
    /\ IF "p" \in running THEN TRUE ELSE PCacheIdle
    /\ IF "y" \in running THEN TRUE ELSE PortalMonthIdle
    /\ IF "c" \in running THEN TRUE ELSE ConfigIdle
    /\ IF "e" \in running THEN TRUE ELSE MonitorIdle

\* the duration cells format_val hands to _norm: the non-empty cells of the
\* "Horas Atrasos" column of the rows idx
HorasKeys(frame, idx) ==
    IF InSeq(frame.columns, COL_HORAS_ATRASOS)
    THEN {frame.data[idx[k]][COL_HORAS_ATRASOS] : k \in 1..Len(idx)} \ {<<>>}
    ELSE {}

\* one call filter_and_prepare(df, unidade, ym, columns_whitelist)
Call(u, target, wl, skipna) ==
    \E r \in {filter_and_prepare(df, u, target, wl, DEFAULT_DISPLAY_COLUMNS, skipna)} :
        /\ mapping' = r.mapping
        /\ unidade' = u
        /\ ym' = target
        /\ whitelist_arg' = wl
        /\ ncalls' = ncalls + 1
        /\ columns_whitelist' = r.wl
        /\ DEFAULT_DISPLAY_COLUMNS' = r.ddc
        /\ rows' = r.rows
        /\ recipients' = r.recipients
        /\ summary' = r.summary
        /\ dfu_index' = r.index
        /\ outcome' = r.outcome
        /\ norm_cache' = CacheFill(norm_cache,
                             MapperKeys(df.columns) \cup HorasKeys(df, r.index))
        /\ df' = TableAfter(df, r.index)

FilterAndPrepare ==
    /\ outcome = "none"
    /\ \E u \in UnitInputs, target \in MonthInputs, wl \in WhitelistInputs, skipna \in BOOLEAN :
           Call(u, target, wl, skipna)

Init == FPInit /\ IdleExcept({"f"}) /\ norm_cache = WarmCache

Next == FilterAndPrepare /\ UNCHANGED frame_f

Spec == Init /\ [][Next]_vars

\* most calls one caller makes on one cached table
MaxRepeat == 2

\* a caller that keeps the table and its whitelist object and calls again:
\* the list it passes is a new one or the object of its previous call
FilterAgain ==
    /\ ncalls < MaxRepeat
    /\ \E u \in UnitInputs, target \in MonthInputs, skipna \in BOOLEAN,
          wl \in WhitelistInputs \cup {columns_whitelist} :
           Call(u, target, wl, skipna)

\* the rows of the two units that are of the first target month and carry
\* a Final-Value that is a number or an infinity
SequenceRows ==
    {r \in SampleRows : r.mes = <<"2", "0", "2", "5", "-", "1", "1">>
                          /\ r.vmf # <<"N", "a", "N">>}

\* the full tables of those rows
SequenceTables == {Table(l, s) : l \in Layouts, s \in [1..MaxRows -> SequenceRows]}

SequenceInit ==
    /\ FPInit
    /\ df \in SequenceTables
    /\ IdleExcept({"f"})
    /\ norm_cache = WarmCache

SequenceNext == FilterAgain /\ UNCHANGED frame_f

SpecSequence == SequenceInit /\ [][SequenceNext]_vars

HorasInit ==
    /\ \/ \E g \in HorasGenerated :
            /\ hMeta = g
            /\ hIn = HorasText(g.sign, g.h, g.m, g.w, g.form)
       \/ \E x \in HorasSamples :
            /\ hMeta = [form |-> "raw", class |-> x.class]
            /\ hIn = x.text
    /\ hOut = None
    /\ hpc = "in"
    /\ IdleExcept({"h"})
    /\ norm_cache = WarmCache

\* series.apply(format_val) on one cell
FormatHoras ==
    /\ hpc = "in"
    /\ hOut' = format_val(hIn)
    /\ hpc' = "out"
    /\ norm_cache' = CacheFill(norm_cache, {hIn} \ {<<>>})
    /\ UNCHANGED <<hIn, hMeta>>
    /\ UNCHANGED frame_h

HorasNext == FormatHoras

SpecHoras == HorasInit /\ [][HorasNext]_vars

---------------------------------------------------------------------------
(* The Column Mapper on its own: map_columns called again and again *)

\* most headers of a table
MaxCols == 2

\* most calls of map_columns on the table
MaxCalls == 2

\* most calls on other tables in between
MaxOthers == 1

\* the headers a table is made of
HeaderPool ==
    { <<"U", "n", "i", "d", ".">>,
      <<"S", "h", "o", "p", "p", "i", "n", "g", " ", "C", "e", "n", "t", "e", "r">>,
      <<"S", "H", "O", "P", "P", "I", "N", "G", " ", "C", "E", "N", "T", "E", "R">>,
      <<"C", "o", "m", "p", "e", "t", "ê", "n", "c", "i", "a", " ", "N", "F">>,
      <<"M", "e", "s", " ", "N", "F", " ", "r", "e", "f">>,
      <<"E", "q", "u", "i", "p", "a", "m", "e", "n", "t", "o", "s", " ", "E", "x", "t", "r", "a">>,
      <<"T", "o", "t", "a", "l">> }

\* the header lists of a table: read_region_sheet returns no table in which
\* two headers are the same string
HeaderLists ==
    {l \in UNION {[1..n -> HeaderPool] : n \in 0..MaxCols} :
        \A i, j \in 1..Len(l) : i # j => l[i] # l[j]}

\* the header lists of the other tables the module serves in between
OtherTables == {[j \in 1..Len(l) |-> l[j].name] : l \in Layouts}

MapperInit ==
    /\ mtable \in HeaderLists
    /\ mfirst = None
    /\ mlast = None
    /\ mcalls = 0
    /\ mothers = 0
    /\ norm_cache = ImportCache
    /\ IdleExcept({"m"})

\* map_columns(table), the first and the later calls
MapColumns ==
    /\ mcalls < MaxCalls
    /\ \E m \in {map_columns(mtable)} :
           /\ mlast' = m
           /\ mfirst' = IF mcalls = 0 THEN m ELSE mfirst
    /\ mcalls' = mcalls + 1
    /\ norm_cache' = CacheFill(norm_cache, MapperKeys(mtable))
    /\ UNCHANGED <<mtable, mothers>>
    /\ UNCHANGED frame_m

\* map_columns(other table) between two calls on the table
MapOther ==
    /\ mcalls >= 1
    /\ mothers < MaxOthers
    /\ \E cols \in OtherTables :
           norm_cache' = CacheFill(norm_cache, MapperKeys(cols))
    /\ mothers' = mothers + 1
    /\ UNCHANGED <<mtable, mfirst, mlast, mcalls>>
    /\ UNCHANGED frame_m

MapperNext == MapColumns \/ MapOther

SpecMapper == MapperInit /\ [][MapperNext]_vars

---------------------------------------------------------------------------
(* The directories and the calls on the Extractor *)

MaxFiles == 2

Regions == {<<"S", "P">>, <<"R", "J">>}

\* the workbooks a directory is made of: name, modification time, whether
\* the file opens, its sheet names, and the headers and cells of its sheets
\* as read_excel hands them over (its header names are pairwise different)
FilePool == {
    [name |-> <<"p", "l", "a", "n", "i", "l", "h", "a", " ", "M", "e", "d", "i", "ç", "ã", "o", " ", "M", "e", "n", "s", "a", "l", "_", "S", "P", "_", "1", ".", "x", "l", "s", "x">>,
     mtime |-> 1, readable |-> TRUE,
     sheets |-> <<<<"R", "e", "s", "u", "m", "o">>, <<"F", "a", "t", "u", "r", "a", "m", "e", "n", "t", "o", " ", "S", "P">>>>,
     columns |-> <<<<" ", "U", "n", "i", "d", "a", "d", "e", " ">>, <<"V", "a", "l", "o", "r", "\n", "M", "e", "n", "s", "a", "l", "nbsp", " ", "F", "i", "n", "a", "l">>, <<"&", "n", "b", "s", "p", ";", "M", "ê", "s", "&", "n", "b", "s", "p", ";", "&", "n", "b", "s", "p", ";", "N", "F", "\r">>>>,
     data |-> <<<<StrCell(<<" ", " ", "S", "P", "\t">>), NaCell, IntCell(1500)>>, <<StrCell(<<"nbsp">>), StrCell(<<" ", "a", " ", "b", " ">>), IntCell(0)>>>>],
    [name |-> <<"M", "e", "d", "i", "ç", "ã", "o", " ", "M", "e", "n", "s", "a", "l", "_", "S", "P", ".", "x", "l", "s", "x">>,
     mtime |-> 2, readable |-> TRUE,
     sheets |-> <<<<" ", "F", "A", "T", "U", "R", "A", "M", "E", "N", "T", "O", " ", "S", "P", " ", "2", "0", "2", "5">>, <<"F", "a", "t", "u", "r", "a", "m", "e", "n", "t", "o", " ", "S", "P">>>>,
     columns |-> <<<<"T", "o", "t", "a", "l", "\t", "G", "e", "r", "a", "l">>, <<"E", "-", "m", "a", "i", "l">>>>,
     data |-> <<<<NaCell, StrCell(<<"\t", "x", "@", "y", " ">>)>>>>],
    [name |-> <<"a", " ", "M", "e", "d", "i", "ç", "ã", "o", " ", "M", "e", "n", "s", "a", "l", "_", "S", "P", ".", "x", "l", "s", "x">>,
     mtime |-> 3, readable |-> TRUE,
     sheets |-> <<<<"F", "a", "t", "u", "r", "a", "m", "e", "n", "t", "o", " ", " ", "S", "P">>>>,
     columns |-> <<<<" ", "U", "n", "i", "d", "a", "d", "e", " ">>, <<"V", "a", "l", "o", "r", "\n", "M", "e", "n", "s", "a", "l", "nbsp", " ", "F", "i", "n", "a", "l">>, <<"&", "n", "b", "s", "p", ";", "M", "ê", "s", "&", "n", "b", "s", "p", ";", "&", "n", "b", "s", "p", ";", "N", "F", "\r">>>>,
     data |-> <<<<StrCell(<<" ", " ", "S", "P", "\t">>), NaCell, IntCell(1500)>>, <<StrCell(<<"nbsp">>), StrCell(<<" ", "a", " ", "b", " ">>), IntCell(0)>>>>],
    [name |-> <<"M", "e", "d", "i", "ç", "ã", "o", " ", "S", "P", ".", "x", "l", "s", "x">>,
     mtime |-> 4, readable |-> TRUE,
     sheets |-> <<<<"F", "a", "t", "u", "r", "a", "m", "e", "n", "t", "o", " ", "S", "P">>, <<"F", "a", "t", "u", "r", "a", "m", "e", "n", "t", "o", " ", "R", "J">>>>,
     columns |-> <<<<"V", "a", "l", "o", "r", " ", " ", "T", "o", "t", "a", "l">>, <<"V", "a", "l", "o", "r", " ", "T", "o", "t", "a", "l">>>>,
     data |-> <<<<IntCell(10), IntCell(20)>>>>],
    [name |-> <<"~", "$", "M", "e", "d", "i", "ç", "ã", "o", " ", "M", "e", "n", "s", "a", "l", "_", "S", "P", ".", "x", "l", "s", "x">>,
     mtime |-> 5, readable |-> TRUE,
     sheets |-> <<<<"F", "a", "t", "u", "r", "a", "m", "e", "n", "t", "o", " ", "R", "J">>>>,
     columns |-> <<<<"T", "o", "t", "a", "l", "\t", "G", "e", "r", "a", "l">>, <<"E", "-", "m", "a", "i", "l">>>>,
     data |-> <<<<NaCell, StrCell(<<"\t", "x", "@", "y", " ">>)>>>>],
    [name |-> <<"d", "a", "d", "o", "s", ".", "x", "l", "s", "x">>,
     mtime |-> 1, readable |-> TRUE,
     sheets |-> <<<<"R", "e", "s", "u", "m", "o">>, <<"f", "a", "t", "u", "r", "a", "m", "e", "n", "t", "o", " ", "r", "j", " ">>>>,
     columns |-> <<<<"U", "n", "i", "d", "a", "d", "e">>, <<"U", "N", "I", "D", "A", "D", "E">>>>,
     data |-> <<<<StrCell(<<"S", "P">>), StrCell(<<"R", "J">>)>>>>],
    [name |-> <<"r", "u", "i", "m", ".", "x", "l", "s", "x">>,
     mtime |-> 2, readable |-> FALSE,
     sheets |-> <<>>,
     columns |-> <<>>,
     data |-> <<>>],
    [name |-> <<"g", "e", "r", "a", "l", ".", "x", "l", "s", "x">>,
     mtime |-> 3, readable |-> TRUE,
     sheets |-> <<<<"F", "a", "t", "u", "r", "a", "m", "e", "n", "t", "o", " ", "S", "P">>>>,
     columns |-> <<<<" ", "U", "n", "i", "d", "a", "d", "e", " ">>, <<"V", "a", "l", "o", "r", "\n", "M", "e", "n", "s", "a", "l", "nbsp", " ", "F", "i", "n", "a", "l">>, <<"&", "n", "b", "s", "p", ";", "M", "ê", "s", "&", "n", "b", "s", "p", ";", "&", "n", "b", "s", "p", ";", "N", "F", "\r">>>>,
     data |-> <<<<StrCell(<<" ", " ", "S", "P", "\t">>), NaCell, IntCell(1500)>>, <<StrCell(<<"nbsp">>), StrCell(<<" ", "a", " ", "b", " ">>), IntCell(0)>>>>]}

Directories == {d \in SUBSET FilePool : Cardinality(d) <= MaxFiles}

ExtractorInit ==
    /\ xlsx_dir \in Directories
    /\ names_cache = <<>>
    /\ _sheet_cache = <<>>
    /\ xcall = NoCall
    /\ xout = NoOut
    /\ IdleExcept({"x"})
    /\ norm_cache = ImportCache

\* extractor.find_workbook(regiao)
FindWorkbook ==
    \E regiao \in Regions :
        \E r \in find_workbook(xlsx_dir, names_cache, regiao,
                               FirstPattern(xlsx_dir, regiao)) :
            /\ xcall' = [op |-> "find_workbook", regiao |-> regiao,
                         path |-> None, use_cache |-> FALSE, hit |-> FALSE,
                         scanned |-> FALSE]
            /\ xout' = [NoOut EXCEPT !.outcome = "returned", !.path = r.path,
                                     !.regiao = regiao]
            /\ names_cache' = NamesCacheFill(names_cache, r.visited)
            /\ UNCHANGED <<xlsx_dir, _sheet_cache>>
            /\ UNCHANGED <<frame_x, pvars>>

\* the call before this one was find_workbook(regiao), no pattern matched a
\* file, and its sheet-name scan returned the path of f
FoundByScan(f, regiao) ==
    /\ xcall.op = "find_workbook"
    /\ xout.regiao = regiao
    /\ xout.path = f.name
    /\ FirstPattern(xlsx_dir, regiao) = 0

\* extractor.read_region_sheet(path, regiao, use_cache)
ReadRegionSheet ==
    \E f \in xlsx_dir, regiao \in Regions, use_cache \in BOOLEAN :
        \E names \in {_get_sheet_names(names_cache, f)} :
            \E r \in {read_region_sheet(_sheet_cache, names, f, regiao, use_cache)} :
                /\ xcall' = [op |-> "read_region_sheet", regiao |-> regiao,
                             path |-> f.name, use_cache |-> use_cache,
                             hit |-> use_cache /\ cache_key(f, regiao) \in DOMAIN _sheet_cache,
                             scanned |-> FoundByScan(f, regiao)]
                /\ xout' = r
                /\ IF use_cache /\ cache_key(f, regiao) \in DOMAIN _sheet_cache
                   THEN UNCHANGED <<names_cache, _sheet_cache>>
                   ELSE /\ names_cache' = NamesCacheFill(names_cache, {f})
                        /\ _sheet_cache' =
                               SheetCacheAfter(_sheet_cache, f, regiao, use_cache, r)
                /\ UNCHANGED xlsx_dir
                /\ UNCHANGED <<frame_x, pvars>>

\* extractor.clear_cache()
ClearCache ==
    /\ _sheet_cache # <<>>
    /\ _sheet_cache' = <<>>
    /\ xcall' = [NoCall EXCEPT !.op = "clear_cache"]
    /\ xout' = NoOut
    /\ UNCHANGED <<xlsx_dir, names_cache>>
    /\ UNCHANGED <<frame_x, pvars>>

ExtractorNext == FindWorkbook \/ ReadRegionSheet \/ ClearCache

SpecExtractor == ExtractorInit /\ [][ExtractorNext]_vars

---------------------------------------------------------------------------
(* One workbook that is saved again, read through the CachedExtractor *)

MaxClock == 3

\* the states of the one workbook: every save has its own modification time
Revisions == {
    [name |-> <<"g", "e", "r", "a", "l", ".", "x", "l", "s", "x">>,
     mtime |-> 1, readable |-> TRUE,
     sheets |-> <<<<"R", "e", "s", "u", "m", "o">>>>,
     columns |-> <<<<" ", "U", "n", "i", "d", "a", "d", "e", " ">>, <<"V", "a", "l", "o", "r">>>>,
     data |-> <<<<StrCell(<<" ", " ", "S", "P", "\t">>), IntCell(1500)>>>>],
    [name |-> <<"g", "e", "r", "a", "l", ".", "x", "l", "s", "x">>,
     mtime |-> 2, readable |-> TRUE,
     sheets |-> <<<<"F", "a", "t", "u", "r", "a", "m", "e", "n", "t", "o", " ", "S", "P">>>>,
     columns |-> <<<<" ", "U", "n", "i", "d", "a", "d", "e", " ">>, <<"V", "a", "l", "o", "r">>>>,
     data |-> <<<<StrCell(<<" ", " ", "S", "P", "\t">>), IntCell(1500)>>>>],
    [name |-> <<"g", "e", "r", "a", "l", ".", "x", "l", "s", "x">>,
     mtime |-> 3, readable |-> TRUE,
     sheets |-> <<<<"F", "a", "t", "u", "r", "a", "m", "e", "n", "t", "o", " ", "S", "P">>>>,
     columns |-> <<<<"U", "n", "i", "d", "a", "d", "e">>, <<"V", "a", "l", "o", "r">>>>,
     data |-> <<<<StrCell(<<"S", "P">>), IntCell(1700)>>, <<StrCell(<<"S", "P", " ">>), NaCell>>>>],
    [name |-> <<"g", "e", "r", "a", "l", ".", "x", "l", "s", "x">>,
     mtime |-> 4, readable |-> TRUE,
     sheets |-> <<<<"R", "e", "s", "u", "m", "o">>, <<"F", "a", "t", "u", "r", "a", "m", "e", "n", "t", "o", " ", "S", "P", " ", "2", "0", "2", "5">>>>,
     columns |-> <<<<"U", "n", "i", "d", "a", "d", "e">>, <<"V", "a", "l", "o", "r">>>>,
     data |-> <<<<StrCell(<<"S", "P">>), IntCell(1700)>>, <<StrCell(<<"S", "P", " ">>), NaCell>>>>]}

\* the PersistentCache as one value, and as the variables after a step
PC ==
    [blobs |-> pc_blobs, metafile |-> pc_metafile, metadata |-> pc_metadata,
     writable |-> pc_writable]

SetPC(c) ==
    /\ pc_blobs' = c.blobs
    /\ pc_metafile' = c.metafile
    /\ pc_metadata' = c.metadata
    /\ pc_writable' = c.writable

CachedInit ==
    /\ xlsx_dir \in {{r} : r \in Revisions}
    /\ names_cache = <<>>
    /\ _sheet_cache = <<>>
    /\ xcall = NoCall
    /\ xout = NoOut
    /\ PCacheIdle
    /\ IdleExcept({"x", "p"})
    /\ norm_cache = ImportCache

\* cached_extractor.read_region_sheet(path, regiao)
CachedRead ==
    \E f \in xlsx_dir, regiao \in Regions :
        \E names \in {_get_sheet_names(names_cache, f)} :
            \E r \in {cached_read_region_sheet(PC, names, f, regiao, clock)} :
                /\ xcall' = [op |-> "cached_read", regiao |-> regiao,
                             path |-> f.name, use_cache |-> FALSE, hit |-> r.hit,
                             scanned |-> FALSE]
                /\ xout' = r.out
                /\ SetPC(r.c)
                /\ names_cache' = IF r.hit \/ r.out.outcome = "cache_error"
                                  THEN names_cache
                                  ELSE NamesCacheFill(names_cache, {f})
                /\ pcall' = [op |-> "read_region_sheet", key |-> cached_key(f, regiao)]
                /\ UNCHANGED <<xlsx_dir, _sheet_cache, clock, faults, pout>>
                /\ UNCHANGED frame_x

\* the workbook is saved again: other content, a later modification time
SaveWorkbook ==
    \E f \in xlsx_dir, g \in Revisions :
        /\ g.name = f.name
        /\ g.mtime > f.mtime
        /\ xlsx_dir' = (xlsx_dir \ {f}) \cup {g}
        /\ xcall' = [NoCall EXCEPT !.op = "save_workbook", !.path = f.name]
        /\ xout' = NoOut
        /\ UNCHANGED <<names_cache, _sheet_cache>>
        /\ UNCHANGED <<frame_x, pvars>>

\* twelve hours pass
Tick ==
    /\ clock < MaxClock
    /\ clock' = clock + 1
    /\ pcall' = [NoPCall EXCEPT !.op = "tick"]
    /\ pout' = Ret("none")
    /\ UNCHANGED <<pc_blobs, pc_metafile, pc_metadata, pc_writable, faults>>
    /\ UNCHANGED <<frame_x, xvars>>

CachedNext == CachedRead \/ SaveWorkbook \/ Tick \/ ReadRegionSheet \/ ClearCache

SpecCached == CachedInit /\ [][CachedNext]_vars

---------------------------------------------------------------------------
(* The calls on one PersistentCache directory *)

MaxFaults == 1

PKeys == {"k1", "k2"}

PValues == {"v"}

PCacheInit ==
    /\ PCacheIdle
    /\ IdleExcept({"p"})
    /\ norm_cache = ImportCache

\* a call on the cache: the cache after it, the call and its result
PCacheCall(op, key, r) ==
    /\ SetPC(r.c)
    /\ pcall' = [op |-> op, key |-> key]
    /\ pout' = r.ret
    /\ UNCHANGED <<clock, faults>>
    /\ UNCHANGED <<frame_x, xvars>>

PSet == \E k \in PKeys, v \in PValues : PCacheCall("set", k, pc_set(PC, k, v, clock))

PGet == \E k \in PKeys : PCacheCall("get", k, pc_get(PC, k, clock))

PDelete == \E k \in PKeys : PCacheCall("delete", k, pc_delete(PC, k))

PClear == PCacheCall("clear", None, pc_clear(PC))

PCleanupExpired == PCacheCall("cleanup_expired", None, pc_cleanup_expired(PC, clock))

\* PersistentCache(cache_dir) again, on the directory as it is
PRecreate ==
    PCacheCall("__init__", None, [c |-> _load_metadata(PC), ret |-> Ret("none")])

\* the index file as another writer or a broken write can leave it
DamagedIndex ==
    {FileAbsent, FileUnreadable, FileJson(MetaNull), FileJson(MetaList)}
        \cup (IF DOMAIN pc_blobs = {} THEN {}
              ELSE {FileJson(MetaDict([k \in DOMAIN pc_blobs |-> BAD_DATE]))})

\* the files of cache_dir are damaged from outside the cache object
Damage ==
    /\ faults < MaxFaults
    /\ faults' = faults + 1
    /\ \/ /\ pc_metafile' \in DamagedIndex \ {pc_metafile}
          /\ UNCHANGED <<pc_blobs, pc_writable>>
       \/ /\ \E k \in DOMAIN pc_blobs :
                 pc_blobs' = [pc_blobs EXCEPT ![k].state = "corrupt"]
          /\ UNCHANGED <<pc_metafile, pc_writable>>
       \/ /\ pc_writable' = ~pc_writable
          /\ UNCHANGED <<pc_blobs, pc_metafile>>
    /\ pcall' = [NoPCall EXCEPT !.op = "damage"]
    /\ pout' = Ret("none")
    /\ UNCHANGED <<pc_metadata, clock>>
    /\ UNCHANGED <<frame_x, xvars>>

PCacheNext ==
    PSet \/ PGet \/ PDelete \/ PClear \/ PCleanupExpired \/ PRecreate \/ Damage \/ Tick

SpecPCache == PCacheInit /\ [][PCacheNext]_vars

---------------------------------------------------------------------------
(* The cells handed to the portal's fallback month parser *)

MonthYears == {2019, 2025}

MonthPrefixes == {<<>>, <<"N", "F", " ">>}

MonthSuffixes == {<<>>, <<" ", "r", "e", "f">>}

\* the month written with one digit or with two
MonthTexts(m) == IF m < 10 THEN {NatToStr(m), Pad2(m)} ELSE {NatToStr(m)}

\* cells that hold no YYYY-MM or YYYY/MM form
NoMonthCells == {<<"n", "o", "v", "e", "m", "b", "r", "o">>, <<"2", "0", "2", "5">>, <<"1", "9", "9", "9", "-", "1", "1">>, <<"2", "0", "2", "5", "-", "0", "0">>, <<"2", "5", "/", "1", "1">>, <<"2", "0", "2", "5", ".", "1", "1">>, <<"1", "1", "/", "2", "0", "2", "5">>, <<" ">>}

PortalMonthInit ==
    /\ \/ \E y \in MonthYears, m \in 1..12, sep \in {"-", "/"},
             pre \in MonthPrefixes, suf \in MonthSuffixes :
             \E mt \in MonthTexts(m) :
                 /\ yMeta = [form |-> "ym", year |-> y, month |-> m]
                 /\ yIn = pre \o NatToStr(y) \o <<sep>> \o mt \o suf
       \/ \E c \in NoMonthCells :
             /\ yMeta = [form |-> "other", year |-> 0, month |-> 0]
             /\ yIn = c
    /\ yOut = None
    /\ ypc = "in"
    /\ IdleExcept({"y"})
    /\ norm_cache = ImportCache

\* parse_year_month(cell) taking the fallback branch
PortalParse ==
    /\ ypc = "in"
    /\ yOut' = portal_parse_year_month(yIn)
    /\ ypc' = "out"
    /\ UNCHANGED <<yIn, yMeta>>
    /\ UNCHANGED frame_y

PortalMonthNext == PortalParse

SpecPortalMonth == PortalMonthInit /\ [][PortalMonthNext]_vars

---------------------------------------------------------------------------
(* Duration formatting: properties *)

IsGenerated == hMeta.form \in {"colon", "hm"}

\* the number of tenths of an hour nearest to total minutes, ties to even
NearestTenths(total) ==
    CHOOSE t \in 0..(2 * total + 1) :
        LET diff == IF 6 * t >= total THEN 6 * t - total ELSE total - 6 * t
        IN  diff <= 3 /\ (diff = 3 => t % 2 = 0)

\* C7: a non-negative duration "H:M" or "Hh Mm" formats to the hours of its
\* total 60*H+M minutes, rounded to one decimal and written with a comma, so
\* two inputs with the same total (minute overflow carried) format alike.
C7_MinuteOverflowCarried ==
    (hpc = "out" /\ IsGenerated /\ hMeta.sign # <<"-">>)
        => hOut = TenthsStr(FALSE, NearestTenths(60 * hMeta.h + hMeta.m))

C7_Witness ==
    /\ hpc = "out"
    /\ hIn = <<"1", ":", "9", "0">>
    /\ hOut = <<"2", ",", "5">>

\* C8: a negative duration whose rounded magnitude is not zero formats to the
\* negation of what the same input without the minus sign formats to.
C8_SignPreserved ==
    (hpc = "out" /\ IsGenerated /\ hMeta.sign = <<"-">>
         /\ NearestTenths(60 * hMeta.h + hMeta.m) > 0)
        => hOut = <<"-">> \o format_val(HorasText(<<>>, hMeta.h, hMeta.m, hMeta.w, hMeta.form))

---------------------------------------------------------------------------
(* Row Filter & Normalizer: properties *)

\* the columns the Column Mapper resolved in the table of the call
UniCol == MapGet(mapping, "Unidade")

MesCol == MesColumn(mapping)

EmailCol == MapGet(mapping, "Email_Destinatario")

VmfCol == MapGet(mapping, "Valor_Mensal_Final")

Called == outcome # "none"

ColumnsResolved == ~Falsy(UniCol) /\ ~Falsy(MesCol)

\* the table positions, in table order, of the rows whose Issue-Month cell
\* parses to ym and whose normalized Unit cell is the normalized unidade
MatchingIndex ==
    LET Keep(i) == /\ parse_year_month(df.data[i][MesCol]) = ym
                   /\ normalize_unit(df.data[i][UniCol]) = normalize_unit(unidade)
    IN  SelectSeq([i \in 1..Len(df.data) |-> i], Keep)

\* the columns filter_and_prepare derives or reformats
Derived ==
    {COL_MES_EMISSAO, COL_MES_REFERENCIA, COL_VALOR_MENSAL_FINAL, COL_HORAS_ATRASOS,
     COL_VMF_NUM}

\* C1: when the Unit and Issue-Month columns resolve, the rows kept are
\* exactly the table rows whose Issue-Month cell parses to the target month
\* and whose normalized Unit cell equals the normalized requested unit, in
\* table order; each returned row carries the source cells of its table row.
C1_ExactlyMatchingRows ==
    (Called /\ ColumnsResolved) =>
        /\ dfu_index = MatchingIndex
        /\ outcome = "returned" =>
              /\ Len(rows) = Len(MatchingIndex)
              /\ \A k \in 1..Len(rows) : \A c \in (DOMAIN rows[k]) \ Derived :
                     rows[k][c] = df.data[MatchingIndex[k]][c]

\* a table of two rows: the first has an Issue-Month cell that does not parse,
\* the second matches the unit only after normalization
C1_Witness ==
    /\ outcome = "returned" /\ ColumnsResolved
    /\ Len(df.data) = 2 /\ dfu_index = <<2>> /\ Len(rows) = 1
    /\ parse_year_month(df.data[1][MesCol]) = None
    /\ df.data[2][UniCol] # unidade

\* C2: on every return path summary.row_count is the length of the returned
\* row list.
C2_RowCountIsLength ==
    outcome = "returned" => summary.row_count = Len(rows)

\* the normal return with a requested display column absent from the table
C2_Witness ==
    /\ outcome = "returned" /\ Len(rows) = 2 /\ summary.row_count = 2
    /\ \E k \in 1..Len(summary.display_columns) :
           summary.display_columns[k] \notin DOMAIN rows[1]

\* the Final-Value cells of the returned rows
VmfCells == [k \in 1..Len(dfu_index) |-> df.data[dfu_index[k]][VmfCol]]

VmfResolved == ~Falsy(VmfCol)

\* a cell written as money: digits with separators and an optional sign
IsMoneyText(cell) ==
    /\ cell # <<>>
    /\ \A i \in 1..Len(cell) : IsDigit(cell[i]) \/ cell[i] \in {".", ",", "-"}

\* the exact sum of a sequence of finite decimals
RECURSIVE ExactSum(_)
ExactSum(values) ==
    IF values = <<>> THEN DecZero
    ELSE DecAdd(ExactSum(SubSeq(values, 1, Len(values) - 1)), values[Len(values)])

\* C3: when every Final-Value cell of the returned rows is money text,
\* summary.sum_valor_mensal_final is the exact sum of the cells parsed as
\* money with Brazilian formatting accepted ("1.500,00" is 1500.00).
C3_SumOfBrazilianMoney ==
    (outcome = "returned" /\ rows # <<>> /\ VmfResolved
        /\ \A k \in 1..Len(VmfCells) : IsMoneyText(VmfCells[k]))
        => summary.sum_valor_mensal_final = FloatOf(ExactSum([k \in 1..Len(VmfCells) |-> parse_brl_money(VmfCells[k])]))

\* the finite number a cell is read as, zero for any other cell
FiniteOrZero(cell) ==
    LET d == DecimalOfStr(cell)
    IN  IF d.kind = "fin" THEN d ELSE DecZero

\* C4: the call never fails, and a Final-Value cell that is empty, NaN,
\* infinite or no number contributes zero to summary.sum_valor_mensal_final;
\* without a resolved Final-Value column the sum is zero.
C4_InvalidCellsCountZero ==
    /\ outcome # "raised"
    /\ (outcome = "returned" /\ rows # <<>>) =>
           summary.sum_valor_mensal_final =
               IF VmfResolved THEN FloatOf(ExactSum([k \in 1..Len(VmfCells) |-> FiniteOrZero(VmfCells[k])])) ELSE DecZero

\* C5: when the Unit or the Issue-Month column does not resolve, when no row
\* matches the target month, or when no row of that month matches the unit,
\* the call returns an empty row list, an empty recipient list and the
\* summary with row_count 0 and sum 0.
C5_EmptyResult ==
    (Called /\ (~ColumnsResolved \/ MatchingIndex = <<>>)) =>
        /\ outcome = "returned"
        /\ rows = <<>>
        /\ recipients = <<>>
        /\ summary = [row_count |-> 0, sum_valor_mensal_final |-> DecZero]

\* rows of the target month exist, none of them of the requested unit
C5_Witness ==
    /\ outcome = "returned" /\ ColumnsResolved
    /\ \E i \in 1..Len(df.data) : parse_year_month(df.data[i][MesCol]) = ym
    /\ MatchingIndex = <<>>
    /\ rows = <<>> /\ summary.row_count = 0

\* "MM/YY" of the calendar month before the month token t ("YYYY-MM")
PrevMonthMMYY(t) ==
    LET y == DigitsToNat(SubSeq(t, 1, 4))
        m == DigitsToNat(SubSeq(t, 6, 7))
    IN  IF m = 1 THEN <<"1", "2", "/">> \o Pad2((y - 1) % 100)
        ELSE Pad2(m - 1) \o <<"/">> \o Pad2(y % 100)

Addresses == ExtendAll([k \in 1..Len(dfu_index) |-> df.data[dfu_index[k]][EmailCol]])

\* the first position of x in seq
FirstPos(seq, x) == CHOOSE i \in 1..Len(seq) : seq[i] = x /\ \A j \in 1..(i - 1) : seq[j] # x

\* C10: the recipient list holds exactly the addresses split from the
\* Recipient-Email cells of the returned rows, none twice, ordered by first
\* occurrence; no address of a filtered-out row appears.
C10_RecipientsDistinctInOrder ==
    (outcome = "returned" /\ rows # <<>> /\ ~Falsy(EmailCol)) =>
        /\ {recipients[i] : i \in 1..Len(recipients)} = {Addresses[i] : i \in 1..Len(Addresses)}
        /\ \A i, j \in 1..Len(recipients) :
               i < j => /\ recipients[i] # recipients[j]
                        /\ FirstPos(Addresses, recipients[i]) < FirstPos(Addresses, recipients[j])

\* two returned rows with cells "a@x; b@y,a@x" and "b@y;c@z"
C10_Witness ==
    /\ outcome = "returned" /\ Len(rows) = 2
    /\ ~Falsy(EmailCol)
    /\ Len(Addresses) = 5
    /\ recipients = << <<"a", "@", "x">>, <<"b", "@", "y">>, <<"c", "@", "z">> >>

---------------------------------------------------------------------------
(* Display columns: properties *)

\* the call returned rows for a display list the caller supplied
ReturnedForWhitelist == outcome = "returned" /\ rows # <<>> /\ columns_whitelist # None

\* C11: for a caller-supplied display list, summary.display_columns and the
\* keys of every returned row include both derived month columns, "Mês de
\* emissão da NF" and "Mês referência para faturamento".
C11_BothMonthColumnsShown ==
    ReturnedForWhitelist =>
        /\ InSeq(summary.display_columns, COL_MES_EMISSAO)
        /\ InSeq(summary.display_columns, COL_MES_REFERENCIA)
        /\ \A k \in 1..Len(rows) :
               {COL_MES_EMISSAO, COL_MES_REFERENCIA} \subseteq DOMAIN rows[k]

\* the display columns that neither the table holds nor the call derives
AbsentDisplayColumns ==
    {summary.display_columns[k] : k \in 1..Len(summary.display_columns)}
        \ ({df.columns[j] : j \in 1..Len(df.columns)}
              \cup {COL_MES_EMISSAO, COL_MES_REFERENCIA, COL_VALOR_MENSAL_FINAL})

\* C12: when a requested display column is absent from the table the call
\* returns, summary.missing_columns lists exactly the absent columns,
\* summary.fallback_used is set, and the keys of every returned row are
\* display columns other than the absent ones.
C12_MissingColumnsReported ==
    (outcome = "returned" /\ rows # <<>> /\ AbsentDisplayColumns # {}) =>
        /\ {summary.missing_columns[k] : k \in 1..Len(summary.missing_columns)}
               = AbsentDisplayColumns
        /\ summary.fallback_used
        /\ \A k \in 1..Len(rows) :
               DOMAIN rows[k] \subseteq
                   ({summary.display_columns[j] : j \in 1..Len(summary.display_columns)}
                        \ AbsentDisplayColumns)

---------------------------------------------------------------------------
(* Column Mapper: properties *)

\* the least element of a non-empty set of numbers
Least(S) == CHOOSE x \in S : \A y \in S : x <= y

\* what the priority rules give for the candidates cs on the headers of
\* mtable: TRUE when got is the header they select
SelectedByRules(cs, got) ==
    LET nh == [j \in 1..Len(mtable) |-> normalize_text_full(mtable[j])]
        nc == [i \in 1..Len(cs) |-> normalize_text_full(cs[i])]
        E  == {i \in 1..Len(cs) : \E j \in 1..Len(mtable) : nh[j] = nc[i]}
        S  == {i \in 1..Len(cs) : \E j \in 1..Len(mtable) : Contains(nh[j], nc[i])}
    IN  IF E # {}
        THEN \E j \in 1..Len(mtable) : nh[j] = nc[Least(E)] /\ got = mtable[j]
        ELSE IF S # {}
        THEN got = mtable[Least({j \in 1..Len(mtable) : Contains(nh[j], nc[Least(S)])})]
        ELSE got = None

\* C13: for each canonical field map_columns returns the header matched
\* exactly by the first candidate that matches any header exactly; without
\* an exact match, the first header in table order containing the first
\* candidate that any header contains; otherwise the field is absent.
C13_RulePriority ==
    mcalls >= 1 =>
        \A key \in DOMAIN COLUMN_CANDIDATES :
            SelectedByRules(COLUMN_CANDIDATES[key], mlast[key])

\* C14: a field with a token-set list that no candidate resolves is mapped to
\* the first header holding every token of the first token set that some
\* header satisfies.
C14_TokenSetsResolve ==
    mcalls >= 1 =>
        \A field \in DOMAIN EXTRA_TOKEN_SETS :
            \A hit \in {_find_col_by_tokens(mtable, EXTRA_TOKEN_SETS[field])} :
                hit # None => MapGet(mlast, field) = hit

---------------------------------------------------------------------------
(* Workbook Locator: properties *)

\* the file of the directory a call was made on or returned
FileNamed(name) == CHOOSE f \in xlsx_dir : f.name = name

IsLockName(name) == StartsWith(name, LOCK_PREFIX)

\* the files that match pattern k for the region and are not lock files
NonLockMatches(k, regiao) ==
    {f \in xlsx_dir : GlobMatch(patterns(regiao)[k], f.name) /\ ~IsLockName(f.name)}

\* C16: find_workbook answers with the most recently modified non-lock match
\* of the first pattern that has one, whatever newer files match only later
\* patterns, and it never answers with a file whose name starts with "~$"
C16_FirstPatternNewestMatch ==
    xcall.op = "find_workbook" =>
        /\ \A k \in 1..3 :
               (/\ NonLockMatches(k, xcall.regiao) # {}
                /\ \A j \in 1..(k - 1) : NonLockMatches(j, xcall.regiao) = {})
               => \E f \in NonLockMatches(k, xcall.regiao) :
                      /\ xout.path = f.name
                      /\ \A g \in NonLockMatches(k, xcall.regiao) : g.mtime <= f.mtime
        /\ xout.path # None => ~IsLockName(xout.path)

\* C16 witness: the file returned is older than another file of the directory
\* that is not a lock file and matches only a later pattern
C16_Witness ==
    /\ xcall.op = "find_workbook"
    /\ xout.path # None
    /\ \E k \in 1..2 :
           /\ FileNamed(xout.path) \in NonLockMatches(k, xcall.regiao)
           /\ \E g \in NonLockMatches(3, xcall.regiao) \ NonLockMatches(k, xcall.regiao) :
                  g.mtime > FileNamed(xout.path).mtime

\* the candidates of the fallback scan: the workbooks that are not lock files
Candidates == {f \in xlsx_dir : GlobMatch(XLSX_PATTERN, f.name) /\ ~IsLockName(f.name)}

\* the workbook opens and one of its sheets is named, or has in its name,
\* "Faturamento {region}"
HasSheetFor(f, regiao) ==
    /\ f.readable
    /\ \E i \in 1..Len(f.sheets) : SheetQualifies(f.sheets[i], SheetTarget(regiao))

---------------------------------------------------------------------------
(* Sheet Reader: properties *)

\* the sheet names of the workbook as the Text Normalizer folds them
NormalizedSheets(f) ==
    [i \in 1..Len(OpenSheetNames(f)) |-> normalize_text_full(OpenSheetNames(f)[i])]

NormalizedTarget(regiao) == normalize_text_full(<<"F", "a", "t", "u", "r", "a", "m", "e", "n", "t", "o", " ">> \o regiao)

\* the first sheet in workbook order whose normalized name equals or contains
\* the normalized target, 0 when there is none
FirstNormalizedSheet(f, regiao) ==
    FirstTrue([i \in 1..Len(OpenSheetNames(f)) |->
                  \/ NormalizedSheets(f)[i] = NormalizedTarget(regiao)
                  \/ Contains(NormalizedSheets(f)[i], NormalizedTarget(regiao))])

\* C18: read_region_sheet reads the first sheet whose normalized name (case,
\* accents and whitespace folded) equals or contains the normalized
\* "Faturamento {region}"; with no such sheet it fails with the
\* sheet-not-found error that lists every sheet name and caches nothing
C18_SheetResolution ==
    xcall.op = "read_region_sheet" =>
        IF FirstNormalizedSheet(FileNamed(xcall.path), xcall.regiao) = 0
        THEN /\ xout.outcome = "sheet_not_found"
             /\ xout.listed = OpenSheetNames(FileNamed(xcall.path))
             /\ cache_key(FileNamed(xcall.path), xcall.regiao) \notin DOMAIN _sheet_cache
        ELSE /\ xout.outcome # "sheet_not_found"
             /\ xout.outcome = "returned" =>
                    xout.sheet_name =
                        OpenSheetNames(FileNamed(xcall.path))[
                            FirstNormalizedSheet(FileNamed(xcall.path), xcall.regiao)]

\* a header with none of the characters the cleanup replaces, no "&nbsp;",
\* no two spaces in a row and no space at either end
TidyHeader(h) ==
    /\ \A i \in 1..Len(h) : h[i] \notin {"nbsp", "\r", "\n"}
    /\ ~Contains(h, NBSP_MARKUP)
    /\ \A i \in 1..(Len(h) - 1) : ~(h[i] = " " /\ h[i + 1] = " ")
    /\ h # <<>> => (h[1] # " " /\ h[Len(h)] # " ")

\* the characters of a source header that are not whitespace, "&nbsp;" apart
InkOf(h) == RemoveChars(ReplaceAll(h, NBSP_MARKUP, <<" ">>), {" ", "\t", "\n", "\r", "nbsp"})

\* C19: in a returned Sheet Table every header is whitespace-normalized and
\* cleaning it again changes nothing, and every cell is a trimmed string, the
\* empty string where the source cell is missing
C19_CleanHeadersAndCells ==
    (xcall.op = "read_region_sheet" /\ xout.outcome = "returned") =>
        /\ Len(xout.table.columns) = Len(FileNamed(xcall.path).columns)
        /\ \A c \in 1..Len(xout.table.columns) :
               /\ TidyHeader(xout.table.columns[c])
               /\ InkOf(xout.table.columns[c]) = InkOf(FileNamed(xcall.path).columns[c])
               /\ CleanHeader(xout.table.columns[c]) = xout.table.columns[c]
        /\ \A r \in 1..Len(xout.table.data) :
               \A c \in 1..Len(xout.table.columns) :
                   /\ xout.table.data[r][c] \in Seq(STRING)
                   /\ Strip(xout.table.data[r][c]) = xout.table.data[r][c]
                   /\ FileNamed(xcall.path).data[r][c].kind = "na"
                          => xout.table.data[r][c] = <<>>

\* C19 witness: a table was returned whose source has a header with a
\* non-breaking space and a line break, a missing cell and a padded cell
C19_Witness ==
    /\ xcall.op = "read_region_sheet"
    /\ xout.outcome = "returned"
    /\ \E c \in 1..Len(FileNamed(xcall.path).columns) :
           /\ "nbsp" \in {FileNamed(xcall.path).columns[c][i] :
                              i \in 1..Len(FileNamed(xcall.path).columns[c])}
           /\ "\n" \in {FileNamed(xcall.path).columns[c][i] :
                            i \in 1..Len(FileNamed(xcall.path).columns[c])}
    /\ \E r \in 1..Len(xout.table.data) :
           \E c \in 1..Len(xout.table.columns) :
               FileNamed(xcall.path).data[r][c].kind = "na"
    /\ \E r \in 1..Len(xout.table.data) :
           \E c \in 1..Len(xout.table.columns) :
               /\ FileNamed(xcall.path).data[r][c].kind = "str"
               /\ FileNamed(xcall.path).data[r][c].text # xout.table.data[r][c]

\* the workbook opens and the reader finds its region sheet
ReadsASheet ==
    /\ xcall.op = "read_region_sheet"
    /\ xout.outcome # "sheet_not_found"

\* C20: a read that finds its sheet returns a table, and no two headers of a
\* returned table have the same normalized name
C20_NoDuplicateHeaders ==
    ReadsASheet =>
        /\ xout.outcome = "returned"
        /\ \A i, j \in 1..Len(xout.table.columns) :
               i < j => normalize_text_full(xout.table.columns[i])
                            # normalize_text_full(xout.table.columns[j])

---------------------------------------------------------------------------
(* Cached sheet reader: properties *)

\* the one workbook of the directory as it is now
Workbook == CHOOSE f \in xlsx_dir : TRUE

\* what an Extractor that opens the file now returns or raises
FreshRead(f, regiao) ==
    ReadSheet(f, OpenSheetNames(f), regiao, RegionSheet(OpenSheetNames(f), regiao))

\* C21: what CachedExtractor.read_region_sheet answers is what reading the
\* workbook as it is now gives: after a save (a new modification time) the
\* table and the sheet name are those of the current file, also when the
\* sheet names changed
C21_ReflectsCurrentFile ==
    xcall.op = "cached_read" => xout = FreshRead(Workbook, xcall.regiao)

---------------------------------------------------------------------------
(* Persistent cache: properties *)

\* C22: get never returns a stored value whose age since its last set
\* exceeds the time-to-live
C22_NeverOlderThanTtl ==
    (pcall.op = "get" /\ pout.kind = "value") =>
        clock - pout.value.setAt <= TTL_TICKS

\* C23: whatever the state of the blob files and of the index, get and set
\* do not raise: get answers with a value or the default, set with a boolean
C23_NoErrorSurfaces ==
    /\ pcall.op = "get" => pout.kind \in {"value", "default"}
    /\ pcall.op = "set" => pout.kind = "bool"

---------------------------------------------------------------------------
(* In-process sheet cache: properties *)

\* the step is a read_region_sheet call on the Extractor that shows in its state
IsReadStep == xcall'.op = "read_region_sheet" /\ xvars' # xvars

\* the cache key of that call
ReadKey == xcall'.path \o <<":">> \o xcall'.regiao

\* C24: a call with use_cache=True on a stored (path, region) returns the
\* stored (table, sheet name) without going to the file, whatever the file
\* is by then; a successful read with use_cache=True is stored; stored
\* results change only by clear_cache, after which the next call goes to the
\* file; a call with use_cache=False goes to the file and leaves the cache
\* as it is
C24_ReadOncePerKey ==
    [][/\ \A k \in DOMAIN _sheet_cache :
              \/ xcall'.op = "clear_cache"
              \/ k \in DOMAIN _sheet_cache' /\ _sheet_cache'[k] = _sheet_cache[k]
       /\ xcall'.op = "clear_cache" => _sheet_cache' = <<>>
       /\ IsReadStep =>
              /\ xcall'.hit <=> (xcall'.use_cache /\ ReadKey \in DOMAIN _sheet_cache)
              /\ xcall'.hit => (xout' = _sheet_cache[ReadKey] /\ _sheet_cache' = _sheet_cache)
              /\ (xcall'.use_cache /\ ~xcall'.hit /\ xout'.outcome = "returned")
                     => (ReadKey \in DOMAIN _sheet_cache' /\ _sheet_cache'[ReadKey] = xout')
              /\ ~xcall'.use_cache => _sheet_cache' = _sheet_cache
              /\ xcall.op = "clear_cache" => ~xcall'.hit]_vars

\* C24 witness: a call was answered from the store with a table that the
\* workbook, saved again since, no longer holds
C24_Witness ==
    /\ xcall.op = "read_region_sheet"
    /\ xcall.hit
    /\ xout.outcome = "returned"
    /\ xout # FreshRead(Workbook, xcall.regiao)

---------------------------------------------------------------------------
(* Portal month parser: properties *)

\* C25: a cell holding YYYY-MM or YYYY/MM (year 20YY, month 1..12 written
\* with one or two digits) gives the token YYYY-MM with the month of the
\* cell; a cell without such a form gives None
C25_MonthOfTheCell ==
    ypc = "out" =>
        IF yMeta.form = "ym"
        THEN yOut = NatToStr(yMeta.year) \o <<"-">> \o Pad2(yMeta.month)
        ELSE yOut = None

RequestedFor(wl) == IF Falsy(wl) THEN <<>> ELSE wl

\* C27: a call that returns rows leaves the caller's columns_whitelist list
\* and the module-level DEFAULT_DISPLAY_COLUMNS as they were, and
\* summary.requested_columns is the whitelist as the caller passed it
C27_ListsUntouched ==
    (outcome = "returned" /\ rows # <<>>) =>
        /\ columns_whitelist = whitelist_arg
        /\ DEFAULT_DISPLAY_COLUMNS = DEFAULT_DISPLAY_COLUMNS_INIT
        /\ summary.requested_columns = RequestedFor(whitelist_arg)

\* C27 counterexample: rows were returned for a whitelist without the two
\* critical columns, and the caller's list has grown by them
C27_WhitelistGrown ==
    /\ outcome = "returned"
    /\ rows # <<>>
    /\ whitelist_arg # None
    /\ Len(columns_whitelist) > Len(whitelist_arg)
    /\ summary.requested_columns = columns_whitelist

\* C27 holds for the calls whose list already names both critical columns,
\* the default list among them
C27_HoldsWhenCriticalListed ==
    (/\ outcome = "returned"
     /\ rows # <<>>
     /\ EnsureCritical(IF Falsy(whitelist_arg) THEN DEFAULT_DISPLAY_COLUMNS_INIT
                       ELSE whitelist_arg)
            = (IF Falsy(whitelist_arg) THEN DEFAULT_DISPLAY_COLUMNS_INIT ELSE whitelist_arg))
    => /\ columns_whitelist = whitelist_arg
       /\ DEFAULT_DISPLAY_COLUMNS = DEFAULT_DISPLAY_COLUMNS_INIT
       /\ summary.requested_columns = RequestedFor(whitelist_arg)

\* C28: a path that find_workbook(region) took from its sheet-name scan is
\* read by read_region_sheet(path, region) on the same Extractor without the
\* sheet-not-found error: both accept the same sheet names for a region
C28_ScanAgreesWithRead ==
    (xcall.op = "read_region_sheet" /\ xcall.scanned) => xout.outcome # "sheet_not_found"

\* C28 witness: the scan found a workbook through a sheet whose name is the
\* target only after lower() and strip(), and the read that followed went to
\* the file and returned that sheet
C28_Witness ==
    /\ xcall.op = "read_region_sheet"
    /\ xcall.scanned
    /\ ~xcall.hit
    /\ xout.outcome = "returned"
    /\ xout.sheet_name # SheetTarget(xcall.regiao)
    /\ LowerStr(xout.sheet_name) # SheetTarget(xcall.regiao)

---------------------------------------------------------------------------
(* ConfigService.apply_config_to_units on the overrides and the history *)

\* most calls of apply_config_to_units in one behaviour
MaxApply == 2

\* configurations that pass validate_config
ValidConfigs ==
    { ConfigData(TRUE, TRUE, <<"Unidade", "Valor Mensal Final">>, TRUE, <<"2", "0", "2", "5", "-", "1", "2">>),
      ConfigData(FALSE, TRUE, <<>>, TRUE, <<" ", "2", "0", "2", "5", "-", "0", "1", "\t", "\n">>),
      ConfigData(TRUE, TRUE, <<"Parcela (x/x)">>, FALSE, <<>>) }

\* configurations with a value of "columns" or "month_reference" that fails
InvalidConfigs ==
    { ConfigData(TRUE, FALSE, <<>>, TRUE, <<"2", "0", "2", "5", "-", "1", "2">>),
      ConfigData(TRUE, TRUE, <<>>, FALSE, <<>>),
      ConfigData(TRUE, TRUE, <<"Unidade", "Salário">>, TRUE, <<"2", "0", "2", "5", "-", "1", "2">>),
      ConfigData(TRUE, TRUE, <<"Unidade">>, TRUE, <<"2", "0", "2", "5", "-", "1", "3">>),
      ConfigData(FALSE, TRUE, <<>>, TRUE, <<"2", "0", "2", "5", "-", "1">>),
      ConfigData(FALSE, TRUE, <<>>, TRUE, <<"1", "9", "9", "9", "-", "0", "1">>),
      ConfigData(FALSE, TRUE, <<>>, TRUE, <<"2", "0", "2", "5", "-", "0", "0">>),
      ConfigData(FALSE, TRUE, <<>>, TRUE, <<"2", "0", "2", "5", "/", "0", "1">>),
      ConfigData(FALSE, TRUE, <<>>, TRUE, <<"2", "0", "2", "5", "-", "0", "1", "1">>),
      ConfigData(FALSE, TRUE, <<>>, TRUE, <<"x", "2", "0", "2", "5", "-", "0", "1">>),
      ConfigData(FALSE, TRUE, <<>>, TRUE, <<>>) }

\* the target_units lists of the calls
UnitLists == {<<>>, <<"A">>, <<"B", "B">>, <<"A", "B", "A">>}

\* an entry written by an earlier session
OldEntry == HistoryEntry("apply_config", <<"A">>, NoConfig, "old")

\* the history file at the start: none yet, or one short of the limit, or full
HistoryFiles ==
    {[kind |-> "absent", history |-> <<>>]}
        \cup {[kind |-> "json", history |-> [i \in 1..n |-> OldEntry]] :
                 n \in {HISTORY_LIMIT - 1, HISTORY_LIMIT}}

ConfigInit ==
    /\ unit_overrides = <<>>
    /\ history_file \in HistoryFiles
    /\ cfaults = 0
    /\ napply = 0
    /\ ccall = [op |-> "none", config |-> NoConfig, units |-> <<>>, user |-> ""]
    /\ cout = [success |-> FALSE, message |-> ""]
    /\ IdleExcept({"c"})
    /\ norm_cache = FreshCache

\* the number of file operations that fail in a call with these choices
FailuresOf(config_data, target_units, fail_at, fault) ==
    IF ~validate_config(config_data).ok \/ UniqueUnits(target_units) = <<>> THEN 0
    ELSE IF fail_at > 0 THEN 1
    ELSE IF fault # "none" /\ history_file.kind # "corrupt" THEN 1
    ELSE 0

\* service.apply_config_to_units(config_data, target_units, user)
ApplyConfig ==
    /\ napply < MaxApply
    /\ \E config_data \in ValidConfigs \cup InvalidConfigs, target_units \in UnitLists,
          fail_at \in 0..2, fault \in {"none", "open", "dump"} :
           /\ fail_at <= Len(UniqueUnits(target_units))
           /\ fail_at > 0 => fault = "none"
           /\ (~validate_config(config_data).ok \/ UniqueUnits(target_units) = <<>>)
                  => (fail_at = 0 /\ fault = "none")
           /\ history_file.kind = "corrupt" => fault = "none"
           /\ cfaults + FailuresOf(config_data, target_units, fail_at, fault) <= MaxFaults
           /\ \E r \in {apply_config_to_units(unit_overrides, history_file, config_data,
                                              target_units, "ana", fail_at, fault)} :
                  /\ unit_overrides' = r.overrides
                  /\ history_file' = r.file
                  /\ cout' = [success |-> r.success, message |-> r.message]
           /\ cfaults' = cfaults + FailuresOf(config_data, target_units, fail_at, fault)
           /\ napply' = napply + 1
           /\ ccall' = [op |-> "apply", config |-> config_data, units |-> target_units,
                        user |-> "ana"]
    /\ UNCHANGED frame_c

ConfigNext == ApplyConfig

SpecConfig == ConfigInit /\ [][ConfigNext]_vars

\* the claim's own words for a configuration that passes validation: columns,
\* when given, is a non-empty list of known columns, and month_reference,
\* when given, is 20YY-MM after trimming, MM from 01 to 12
Acceptable(config_data) ==
    /\ config_data.has_columns =>
           /\ config_data.columns.list
           /\ config_data.columns.items # <<>>
           /\ \A i \in 1..Len(config_data.columns.items) :
                  config_data.columns.items[i] \in _column_set
    /\ config_data.has_month =>
           \E y \in 0..99, m \in 1..12 :
               Strip(config_data.month) =
                   <<"2", "0">> \o Pad2(y) \o <<"-">> \o Pad2(m)

\* the history as the file holds it
HistoryOf(file) == IF file.kind = "json" THEN file.history ELSE <<>>

\* C29: a call with a configuration that fails validation returns failure
\* and writes neither an override nor a history entry; a call that returns
\* success has saved the configuration for every target unit and has appended
\* exactly one entry to the history, which holds at most 100 entries
C29_ValidatedApply ==
    [][(ccall'.op = "apply" /\ napply' = napply + 1) =>
          /\ ~Acceptable(ccall'.config) =>
                 /\ ~cout'.success
                 /\ unit_overrides' = unit_overrides
                 /\ history_file' = history_file
          /\ cout'.success =>
                 /\ \A i \in 1..Len(ccall'.units) :
                        /\ ccall'.units[i] \in DOMAIN unit_overrides'
                        /\ unit_overrides'[ccall'.units[i]] = ccall'.config
                 /\ history_file'.kind = "json"
                 /\ Len(history_file'.history) <= HISTORY_LIMIT
                 /\ history_file'.history =
                        LastEntries(Append(HistoryOf(history_file),
                            HistoryEntry("apply_config", UniqueUnits(ccall'.units),
                                         ccall'.config, ccall'.user)))]_vars

\* C29 holds for the calls during which the history file parses and no write
\* of the history fails
C29_HoldsWhileHistoryWritable ==
    [][(ccall'.op = "apply" /\ napply' = napply + 1 /\ cfaults' = cfaults
            /\ history_file.kind # "corrupt") =>
          /\ ~Acceptable(ccall'.config) =>
                 /\ ~cout'.success
                 /\ unit_overrides' = unit_overrides
                 /\ history_file' = history_file
          /\ cout'.success =>
                 /\ \A i \in 1..Len(ccall'.units) :
                        /\ ccall'.units[i] \in DOMAIN unit_overrides'
                        /\ unit_overrides'[ccall'.units[i]] = ccall'.config
                 /\ history_file'.kind = "json"
                 /\ Len(history_file'.history) <= HISTORY_LIMIT
                 /\ history_file'.history =
                        LastEntries(Append(HistoryOf(history_file),
                            HistoryEntry("apply_config", UniqueUnits(ccall'.units),
                                         ccall'.config, ccall'.user)))]_vars

\* a call returned success and the history file holds no entry of it
C29_SuccessWithoutEntry ==
    /\ ccall.op = "apply"
    /\ cout.success
    /\ \/ history_file.kind # "json"
       \/ history_file.history = <<>>
       \/ history_file.history[Len(history_file.history)].user # ccall.user

---------------------------------------------------------------------------
(* The execution page and the pipeline subprocess *)

\* most lines a subprocess writes
MaxScript == 3

\* the lines a pipe holds before a write to it blocks
PipeLines == 2

\* most units selected on the page
MaxSelected == 2

\* the lines a subprocess writes: two announcements, an error line on the
\* standard output, a line of a traceback on the standard error
LinePool ==
    {Line("stdout", FALSE, "A"), Line("stdout", FALSE, "B"),
     Line("stdout", TRUE, NoUnit), Line("stderr", FALSE, NoUnit)}

Scripts == UNION {[1..n -> LinePool] : n \in 0..MaxScript}

\* after subprocess.Popen(...) and the first update_ui()
MonitorInit ==
    /\ child_script \in Scripts
    /\ child_state = "running"
    /\ returncode = 0
    /\ stdout_pipe = <<>>
    /\ stderr_pipe = <<>>
    /\ mon_pc = "loop"
    /\ total_units \in 1..MaxSelected
    /\ full_logs = <<>>
    /\ current_unit = INICIANDO
    /\ processed_units = {}
    /\ processed_count = 0
    /\ errors_count = 0
    /\ display_count = 0
    /\ label_count = 0
    /\ status_state = "running"
    /\ stderr_output = <<>>
    /\ IdleExcept({"e"})
    /\ norm_cache = FreshCache

page_vars == <<mon_pc, total_units, full_logs, current_unit, processed_units,
               processed_count, errors_count, display_count, label_count, status_state,
               stderr_output>>

\* the subprocess writes its next line; the write blocks while the pipe of
\* that stream is full
ChildWrite ==
    /\ child_state = "running"
    /\ child_script # <<>>
    /\ IF Head(child_script).stream = "stdout"
       THEN /\ Len(stdout_pipe) < PipeLines
            /\ stdout_pipe' = Append(stdout_pipe, Head(child_script))
            /\ UNCHANGED stderr_pipe
       ELSE /\ Len(stderr_pipe) < PipeLines
            /\ stderr_pipe' = Append(stderr_pipe, Head(child_script))
            /\ UNCHANGED stdout_pipe
    /\ child_script' = Tail(child_script)
    /\ UNCHANGED <<child_state, returncode, page_vars>>
    /\ UNCHANGED frame_e

\* the subprocess has written everything and exits, which closes its ends
\* of both pipes
ChildExit ==
    /\ child_state = "running"
    /\ child_script = <<>>
    /\ child_state' = "exited"
    /\ returncode' \in {0, 1}
    /\ UNCHANGED <<child_script, stdout_pipe, stderr_pipe, page_vars>>
    /\ UNCHANGED frame_e

\* the units and the count after an announcement of another unit
MarkCompleted(units, unit) == IF unit # INICIANDO THEN units \cup {unit} ELSE units

\* one pass of the loop with a line: process.stdout.readline() returned it
ReadLine ==
    /\ mon_pc = "loop"
    /\ stdout_pipe # <<>>
    /\ \E line \in {Head(stdout_pipe)} :
           /\ stdout_pipe' = Tail(stdout_pipe)
           /\ full_logs' = Append(full_logs, line)
           /\ errors_count' = IF line.error THEN errors_count + 1 ELSE errors_count
           /\ IF line.unit # NoUnit /\ line.unit # current_unit
              THEN /\ processed_units' = MarkCompleted(processed_units, current_unit)
                   /\ processed_count' =
                          IF current_unit # INICIANDO
                          THEN Cardinality(MarkCompleted(processed_units, current_unit))
                          ELSE processed_count
                   /\ current_unit' = line.unit
                   /\ display_count' = UpdateUiCount(processed_count', total_units)
                   /\ label_count' = processed_count'
              ELSE UNCHANGED <<processed_units, processed_count, current_unit,
                               display_count, label_count>>
    /\ UNCHANGED <<child_script, child_state, returncode, stderr_pipe, mon_pc,
                   total_units, status_state, stderr_output>>
    /\ UNCHANGED frame_e

\* readline() returned "" at the end of the stream and poll() is not None:
\* the loop ends and the last unit is marked as completed
EndOfOutput ==
    /\ mon_pc = "loop"
    /\ stdout_pipe = <<>>
    /\ child_state = "exited"
    /\ processed_units' = MarkCompleted(processed_units, current_unit)
    /\ processed_count' = IF current_unit # INICIANDO
                          THEN Cardinality(MarkCompleted(processed_units, current_unit))
                          ELSE processed_count
    /\ mon_pc' = "stderr"
    /\ UNCHANGED <<child_script, child_state, returncode, stdout_pipe, stderr_pipe,
                   total_units, full_logs, current_unit, errors_count, display_count,
                   label_count, status_state, stderr_output>>
    /\ UNCHANGED frame_e

\* the state of the status container for a return code and an error count
FinalState(code, errors) == IF code = 0 /\ errors = 0 THEN "complete" ELSE "error"

\* process.stderr.read(), process.wait() and the final status
ReadStderr ==
    /\ mon_pc = "stderr"
    /\ child_state = "exited"
    /\ stderr_output' = stderr_pipe
    /\ stderr_pipe' = <<>>
    /\ status_state' = FinalState(returncode, errors_count)
    /\ mon_pc' = "done"
    /\ UNCHANGED <<child_script, child_state, returncode, stdout_pipe, total_units,
                   full_logs, current_unit, processed_units, processed_count,
                   errors_count, display_count, label_count>>
    /\ UNCHANGED frame_e

ChildStep == ChildWrite \/ ChildExit

PageStep == ReadLine \/ EndOfOutput \/ ReadStderr

MonitorNext == ChildWrite \/ ChildExit \/ ReadLine \/ EndOfOutput \/ ReadStderr

\* the operating system lets both processes run whenever they can
SpecMonitor ==
    MonitorInit /\ [][MonitorNext]_vars /\ WF_vars(ChildStep) /\ WF_vars(PageStep)

\* the unit names announced in the lines read so far
Announced == {full_logs[i].unit : i \in 1..Len(full_logs)} \ {NoUnit}

\* C30: whatever the subprocess writes to its two streams before it exits,
\* the monitoring loop ends and the page reaches its final status
C30_LoopEnds == <>(mon_pc = "done")

\* C30, the rest: the count never decreases
C30_CountNeverDecreases == [][processed_count' >= processed_count]_vars

\* C30, the rest: the header shows at most the number of selected units, and
\* at the end the count is the number of distinct names announced and the
\* status is complete exactly for return code 0 without an error line
C30_FinalCountAndStatus ==
    /\ display_count <= total_units
    /\ mon_pc = "done" =>
           /\ child_script = <<>>
           /\ processed_count = Cardinality(Announced)
           /\ status_state = "complete" <=>
                  (returncode = 0 /\ \A i \in 1..Len(full_logs) : ~full_logs[i].error)
           /\ status_state \in {"complete", "error"}

\* C30 holds for the subprocesses whose standard error fits into the pipe
C30_EndsWhenStderrFits ==
    (Cardinality({i \in 1..Len(child_script) : child_script[i].stream = "stderr"})
         <= PipeLines)
    => <>(mon_pc = "done")

\* the deadlock: the subprocess waits for room in the pipe of its standard
\* error, the page waits for a line on the standard output
C30_Deadlock ==
    /\ child_state = "running"
    /\ child_script # <<>>
    /\ Head(child_script).stream = "stderr"
    /\ Len(stderr_pipe) = PipeLines
    /\ mon_pc = "loop"
    /\ stdout_pipe = <<>>

\* the label of the status container shows the count as it is
C30_LabelWithinTotal == label_count <= total_units

=============================================================================
